---------------------------- MODULE Spec2Model ----------------------------
(***************************************************************************)
(* A model of the company network client of ukboards                       *)
(* (src/uk_boards/companies.py): the recursive crawler that builds a       *)
(* bipartite graph of companies and their officers / significant           *)
(* controllers from the Companies House registry, and its run ledger.      *)
(*                                                                         *)
(* Python values are represented as follows.                               *)
(*   str            a sequence of one-character strings                    *)
(*   Optional[x]    <<>> for None (or an absent key), <<x>> otherwise      *)
(*   a JSON reply   a record with a field st: "ok" (a non-empty dict),     *)
(*                  "none" (None: 404 or a given-up query), "perm" (the    *)
(*                  query raises CompaniesHousePermissionError), "fail"    *)
(*                  (the query raises Exception after its last trial)      *)
(*   a dict         a sequence of <<key, value>> pairs in insertion order  *)
(*   networkx Graph a record of a node-attribute function (each value      *)
(*                  with the set of the keys its dict holds), an           *)
(*                  edge-data function over two-element sets of node ids   *)
(*                  and the sequence of the nodes in insertion order       *)
(***************************************************************************)
EXTENDS Integers, Sequences, FiniteSets, TLC

VARIABLES
    registry,                         \* the Companies House data served to the queries
    constructed,                      \* how CompanyNetworkClient.__init__ ended, and its branches argument
    branches,                         \* self.branches
    include_significant_controllers,  \* self.include_significant_controllers
    include_officers,                 \* self.include_officers
    include_edge_data,                \* self.include_edge_data
    enforce_missing_ties,             \* self.enforce_missing_ties
    exclude_non_active_companies,     \* self.exclude_non_active_companies
    exclude_resigned_board_members,   \* self.exclude_resigned_board_members
    exclude_ceased_controllers,       \* self.exclude_ceased_controllers
    compose_queried_networks,         \* self.compose_queried_networks
    _reset_cache,                     \* self._reset_cache
    _root_id,                         \* self._root_id
    _graph,                           \* self._graph: a reference into heap
    _officer_appointments_cache,      \* self._officer_appointments_cache
    _runs,                            \* self._runs
    _query_start,                     \* self._query_start (absent until first set)
    _query_end,                       \* self._query_end (absent until first set)
    heap,                             \* the Graph objects created so far
    clock,                            \* the instant datetime.now() / today() return next
    requests,                         \* the registry queries sent so far, in order
    calls,                            \* the calls made on the client and how each ended
    generator,                        \* the (async_)networks_generator being consumed
    resource,                         \* what the queried URL of the registry serves
    frames,                           \* the companies_house_query calls in progress, innermost last
    sent,                             \* the HTTP requests sent so far, in order
    returns,                          \* the companies_house_query calls that ended, in order
    given,                            \* the value stringify_company_id is given
    normalised,                       \* what stringify_company_id returned for it, and for its own results
    filtered,                         \* the call of filter_active_board_members made, and how it ended
    crawled,                          \* the call of the function get_company_network made, and how it ended
    crawling,                         \* the get_network call followed statement by statement: its _get_network frames
    executed,                         \* the number of steps the interpreter has run of that call
    written,                          \* the graph and the metadata write_json_graph is given
    graph_file,                       \* the file write_json_graph wrote
    read,                             \* the call of read_json_graph made, and what it returned
    organisation_sequence,            \* the OrganisationSequence
    sequence_calls,                   \* the calls made on the sequence and how each ended
    iterating,                        \* the generator of the sequence's networks that is suspended at a yield
    handlers                          \* len(logger.handlers) of the logger of uk_boards.py, which is made with its StreamHandler

vars == <<registry, constructed, branches, include_significant_controllers,
          include_officers, include_edge_data, enforce_missing_ties,
          exclude_non_active_companies, exclude_resigned_board_members,
          exclude_ceased_controllers, compose_queried_networks, _reset_cache,
          _root_id, _graph, _officer_appointments_cache, _runs, _query_start,
          _query_end, heap, clock, requests, calls, generator,
          resource, frames, sent, returns, given, normalised,
          filtered, crawled, crawling, executed, written, graph_file, read,
          organisation_sequence, sequence_calls, iterating, handlers>>

\* the variables of one companies_house_query call seen at the HTTP level
transport == <<resource, frames, sent, returns>>

\* the variables of the applications of stringify_company_id to one value
normaliser == <<given, normalised>>

\* the variables of the calls of the module's functions on a graph
library == <<filtered, crawled, crawling, executed, written, graph_file, read,
            organisation_sequence, sequence_calls, iterating, handlers>>

\* the variables of an OrganisationSequence
sequencer == <<organisation_sequence, sequence_calls, iterating, handlers>>

\* the variables of one write_json_graph and the read_json_graph after it
serialiser == <<written, graph_file, read>>

---------------------------------------------------------------------------
(* Bounds of the model.                                                    *)

\* the largest branches value a client is constructed with
MaxBranches == 2
\* the largest number of get_network calls made on one client
MaxCalls == 2
\* the largest number of seeds handed to a generator or a composed call
MaxSeeds == 2

---------------------------------------------------------------------------
(* Python values.                                                          *)

None == <<>>
Some(x) == <<x>>
NoExc == "none"

\* a rjust that adds one fillchar at most
rjust_Once(s, width, fillchar) ==
    IF Len(s) >= width THEN s ELSE <<fillchar>> \o s

\* str.rjust(width, fillchar)
RECURSIVE rjust(_, _, _)
rjust(s, width, fillchar) ==
    IF Len(s) >= width THEN s ELSE rjust(<<fillchar>> \o s, width, fillchar)

Digits == {"0", "1", "2", "3", "4", "5", "6", "7", "8", "9"}

\* str.isdigit(): non-empty and every character a digit
isdigit(s) == Len(s) > 0 /\ \A i \in 1..Len(s) : s[i] \in Digits

\* sub in s, for two str
Contains(s, sub) ==
    \E i \in 0..(Len(s) - Len(sub)) :
        \A j \in 1..Len(sub) : s[i + j] = sub[j]

\* dict[key] = value on an insertion-ordered dict
DictSet(d, key, value) ==
    IF \E i \in 1..Len(d) : d[i][1] = key
    THEN [i \in 1..Len(d) |-> IF d[i][1] = key THEN <<key, value>> ELSE d[i]]
    ELSE Append(d, <<key, value>>)

DictHas(d, key) == \E i \in 1..Len(d) : d[i][1] = key

DictGet(d, key) == d[CHOOSE i \in 1..Len(d) : d[i][1] = key][2]

DictKeys(d) == [i \in 1..Len(d) |-> d[i][1]]

---------------------------------------------------------------------------
(* networkx.Graph.                                                         *)

\* Graph(): the attribute dicts of the nodes, the data of the edges, and
\* the nodes in the order they were added, in which Graph.nodes iterates
Graph == [nodes |-> <<>>, edges |-> <<>>, order |-> <<>>]

\* the keywords add_node is called with in this repository
NodeKeys == {"name", "kind", "bipartite", "is_person", "category", "data"}

\* the attribute dict of a node that add_edge created: no attribute is set.
\* keys are the attributes the dict holds; has says that it holds any
BareNode ==
    [has |-> FALSE, keys |-> {}, name |-> <<>>, kind |-> "", bipartite |-> -1,
     is_person |-> FALSE, category |-> "", data |-> [tag |-> "unset"]]

\* what an edge holds that was added without a data keyword
NoData == <<None, None>>

NodeIds(g) == DOMAIN g.nodes
EdgeIds(g) == DOMAIN g.edges

\* dict.update on the attribute dict of a node: the keys given are set, the
\* others stay
UpdateAttr(old, attr) ==
    [has |-> old.has \/ attr.keys # {},
     keys |-> old.keys \cup attr.keys,
     name |-> IF "name" \in attr.keys THEN attr.name ELSE old.name,
     kind |-> IF "kind" \in attr.keys THEN attr.kind ELSE old.kind,
     bipartite |-> IF "bipartite" \in attr.keys THEN attr.bipartite
                   ELSE old.bipartite,
     is_person |-> IF "is_person" \in attr.keys THEN attr.is_person
                   ELSE old.is_person,
     category |-> IF "category" \in attr.keys THEN attr.category
                  ELSE old.category,
     data |-> IF "data" \in attr.keys THEN attr.data ELSE old.data]

\* the order of the nodes once n is added
Ordered(order, n) ==
    IF \E i \in 1..Len(order) : order[i] = n THEN order ELSE Append(order, n)

\* Graph.add_node(n, **attr): a new node with the attributes given, or the
\* attributes given set on the node there is
add_node(g, n, attr) ==
    [g EXCEPT !.nodes = (n :> UpdateAttr(IF n \in NodeIds(g) THEN g.nodes[n]
                                         ELSE BareNode, attr)) @@ @,
              !.order = Ordered(@, n)]

\* Graph.add_edge(u, v, data=d), or Graph.add_edge(u, v) for d = NoData:
\* creates the missing end nodes without attributes, u first, and sets the
\* data given, on a new edge or on an existing one
add_edge(g, u, v, d) ==
    [nodes |-> g.nodes @@ (u :> BareNode) @@ (v :> BareNode),
     edges |-> IF d = NoData /\ {u, v} \in EdgeIds(g) THEN g.edges
               ELSE ({u, v} :> d) @@ g.edges,
     order |-> Ordered(Ordered(g.order, u), v)]

\* len(graph)
GraphLen(g) == Cardinality(NodeIds(g))

\* the nodes reachable from the nodes of seen
RECURSIVE Reach(_, _)
Reach(g, seen) ==
    LET next == seen \cup {n \in NodeIds(g) :
                             \E m \in seen : {m, n} \in EdgeIds(g)}
    IN  IF next = seen THEN seen ELSE Reach(g, next)

RECURSIVE CountComponents(_, _)
CountComponents(g, left) ==
    IF left = {} THEN 0
    ELSE LET n == CHOOSE x \in left : TRUE
         IN  1 + CountComponents(g, left \ Reach(g, {n}))

\* networkx.number_connected_components
number_connected_components(g) == CountComponents(g, NodeIds(g))

---------------------------------------------------------------------------
(* The registry: what each Companies House endpoint replies.               *)

\* an 8 character company number ending in the digit d
Co(d) == <<"0", "0", "0", "0", "0", "0", "0", d>>

Str(st, s) == [st |-> st, s |-> s]
\* a "name" entry: a str, null, or no such key
NameOf(s) == Str("str", s)
NameNull == Str("null", <<>>)
NameMissing == Str("missing", <<>>)

NotFound == [st |-> "none"]

\* a company profile: /company/{id}
Company(name, status, officers_link) ==
    [st |-> "ok", company_name |-> name, company_status |-> status,
     officers_link |-> officers_link]

\* a listing with an "items" list
Listing(items) == [st |-> "ok", items |-> items]

\* one officer of /company/{id}/officers; id is the officer id of
\* links.officer.appointments
Officer(id, name, resigned_on) ==
    [id |-> id, name |-> name, resigned_on |-> resigned_on,
     ceased_on |-> None, company_number |-> None, link |-> <<>>]

\* one appointment of /officers/{id}/appointments
Appointment(company_number, name, resigned_on) ==
    [id |-> None, name |-> name, resigned_on |-> resigned_on,
     ceased_on |-> None, company_number |-> Some(company_number), link |-> <<>>]

\* str.join for a list of str
RECURSIVE Join(_, _)
Join(parts, separator) ==
    IF Len(parts) = 0 THEN <<>>
    ELSE IF Len(parts) = 1 THEN parts[1]
    ELSE parts[1] \o separator \o Join(Tail(parts), separator)

\* the kind segments of the links.self of a significant controller
INDIVIDUAL == <<"i", "n", "d", "i", "v", "i", "d", "u", "a", "l">>
CORPORATE_ENTITY ==
    <<"c", "o", "r", "p", "o", "r", "a", "t", "e", "-",
      "e", "n", "t", "i", "t", "y">>
INDIVIDUAL_BENEFICIAL_OWNER ==
    <<"i", "n", "d", "i", "v", "i", "d", "u", "a", "l", "-",
      "b", "e", "n", "e", "f", "i", "c", "i", "a", "l", "-", "o", "w", "n", "e", "r">>

\* links.self of a significant controller:
\* /company/{number}/persons-with-significant-control/{kind}/{id}
SelfLink(company_number, kind, id) ==
    Join(<<<<>>, <<"c", "o", "m", "p", "a", "n", "y">>, company_number,
           <<"p", "e", "r", "s", "o", "n", "s", "-", "w", "i", "t", "h", "-",
             "s", "i", "g", "n", "i", "f", "i", "c", "a", "n", "t", "-", "c", "o", "n", "t", "r", "o", "l">>,
           kind, id>>, <<"/">>)

\* one entry of /company/{id}/persons-with-significant-control; link is
\* links.self and id its last segment
Controller(id, name, ceased_on, link) ==
    [id |-> id, name |-> name, resigned_on |-> None,
     ceased_on |-> ceased_on, company_number |-> None, link |-> link]

O1 == <<"o", "1">>
O2 == <<"o", "2">>
O3 == <<"o", "3">>
O4 == <<"o", "4">>
K1 == <<"k", "1">>
K2 == <<"k", "2">>

ANN == <<"A", "N", "N">>
BOB == <<"B", "O", "B">>
CY == <<"C", "Y">>
CYR == <<"C", "Y", "R">>
DEE == <<"D", "E", "E">>
XLTD == <<"X", " ", "L", "T", "D">>

\* Two companies that share an officer whose appointments also name a
\* company the registry does not hold; the second company is dissolved and
\* its own listing omits the shared officer; one officer has resigned, the
\* two officers of the second company have no appointments page; one
\* controller has ceased.
RegistryInterlock ==
    [company |->
        (Co("1") :> Company(<<"A">>, Some("active"), TRUE)) @@
        (Co("2") :> Company(<<"B">>, Some("dissolved"), TRUE)),
     officers |->
        (Co("1") :> Listing(<<Officer(O1, NameOf(ANN), None),
                              Officer(O2, NameOf(BOB), Some(5))>>)) @@
        (Co("2") :> Listing(<<Officer(O3, NameOf(CY), None),
                              Officer(O4, NameOf(XLTD), None)>>)),
     appointments |->
        (O1 :> Listing(<<Appointment(Co("1"), NameOf(ANN), None),
                         Appointment(Co("2"), NameOf(ANN), None),
                         Appointment(Co("3"), NameOf(ANN), None)>>)) @@
        (O2 :> Listing(<<Appointment(Co("1"), NameOf(BOB), Some(5))>>)),
     controllers |->
        (Co("1") :> Listing(<<Controller(K1, NameOf(DEE), None,
                                         SelfLink(Co("1"), INDIVIDUAL, K1)),
                              Controller(K2, NameOf(XLTD), Some(5),
                                         SelfLink(Co("1"), CORPORATE_ENTITY,
                                                  K2))>>)),
     controller |->
        (K1 :> [st |-> "ok"]) @@ (K2 :> [st |-> "ok"])]

\* A chain of three active companies, each reached from the one before
\* through an officer whose tie the next company's own listing omits or
\* records; one officer resigns in the future, and one is named
\* differently by the appointment to the second company.
RegistryChain ==
    [company |->
        (Co("1") :> Company(<<"A">>, Some("active"), TRUE)) @@
        (Co("2") :> Company(<<"B">>, Some("active"), TRUE)) @@
        (Co("3") :> Company(<<"C">>, None, TRUE)),
     officers |->
        (Co("1") :> Listing(<<Officer(O1, NameOf(ANN), None)>>)) @@
        (Co("2") :> Listing(<<Officer(O3, NameOf(CY), None)>>)) @@
        (Co("3") :> Listing(<<Officer(O3, NameOf(CY), None),
                              Officer(O4, NameOf(XLTD), Some(100))>>)),
     appointments |->
        (O1 :> Listing(<<Appointment(Co("1"), NameOf(ANN), None),
                         Appointment(Co("2"), NameOf(ANN), None)>>)) @@
        (O3 :> Listing(<<Appointment(Co("3"), NameOf(CY), None),
                         Appointment(Co("2"), NameOf(CYR), None)>>)) @@
        (O4 :> Listing(<<Appointment(Co("3"), NameOf(XLTD), Some(100)),
                         Appointment(Co("1"), NameOf(XLTD), None)>>)),
     controllers |->
        (Co("1") :> Listing(<<Controller(K1, NameOf(DEE), None,
                                         SelfLink(Co("1"), INDIVIDUAL, K1))>>)) @@
        (Co("3") :> Listing(<<Controller(K1, NameOf(DEE), Some(100),
                                         SelfLink(Co("3"),
                                                  INDIVIDUAL_BENEFICIAL_OWNER,
                                                  K1))>>)),
     controller |->
        (K1 :> [st |-> "ok"])]

\* A company whose officer leads to a second company, whose own listing
\* omits that officer and holds one entry without a "name" key for an
\* officer without an appointments page; a third company has no officers
\* link.
RegistryNameless ==
    [company |->
        (Co("1") :> Company(<<"A">>, Some("active"), TRUE)) @@
        (Co("2") :> Company(<<"B">>, Some("active"), TRUE)) @@
        (Co("3") :> Company(<<"C">>, Some("active"), FALSE)),
     officers |->
        (Co("1") :> Listing(<<Officer(O1, NameOf(ANN), None)>>)) @@
        (Co("2") :> Listing(<<Officer(O3, NameMissing, None)>>)) @@
        (Co("3") :> Listing(<<Officer(O2, NameOf(BOB), None)>>)),
     appointments |->
        (O1 :> Listing(<<Appointment(Co("1"), NameOf(ANN), None),
                         Appointment(Co("2"), NameOf(ANN), None)>>)),
     controllers |-> <<>>,
     controller |-> <<>>]

\* A chain of three active companies whose last one lists an officer with a
\* null name, whose appointments do not name that company.
RegistryNull ==
    [company |->
        (Co("1") :> Company(<<"A">>, Some("active"), TRUE)) @@
        (Co("2") :> Company(<<"B">>, Some("active"), TRUE)) @@
        (Co("3") :> Company(<<"C">>, Some("active"), TRUE)),
     officers |->
        (Co("1") :> Listing(<<Officer(O1, NameOf(ANN), None)>>)) @@
        (Co("2") :> Listing(<<Officer(O2, NameOf(BOB), None)>>)) @@
        (Co("3") :> Listing(<<Officer(O4, NameNull, None)>>)),
     appointments |->
        (O1 :> Listing(<<Appointment(Co("1"), NameOf(ANN), None),
                         Appointment(Co("2"), NameOf(ANN), None)>>)) @@
        (O2 :> Listing(<<Appointment(Co("2"), NameOf(BOB), None),
                         Appointment(Co("3"), NameOf(BOB), None)>>)) @@
        (O4 :> Listing(<<Appointment(Co("1"), NameOf(XLTD), None)>>)),
     controllers |-> <<>>,
     controller |-> <<>>]

\* Four active companies: the second lists two officers; the first leads
\* to the first company, whose other officer leads to the third; the second
\* leads to the third directly; the third lists an officer of the fourth.
RegistryDiamond ==
    [company |->
        (Co("1") :> Company(<<"A">>, Some("active"), TRUE)) @@
        (Co("2") :> Company(<<"B">>, Some("active"), TRUE)) @@
        (Co("3") :> Company(<<"C">>, Some("active"), TRUE)) @@
        (Co("4") :> Company(<<"D">>, Some("active"), TRUE)),
     officers |->
        (Co("1") :> Listing(<<Officer(O1, NameOf(ANN), None),
                              Officer(O3, NameOf(CY), None)>>)) @@
        (Co("2") :> Listing(<<Officer(O1, NameOf(ANN), None),
                              Officer(O2, NameOf(BOB), None)>>)) @@
        (Co("3") :> Listing(<<Officer(O2, NameOf(BOB), None),
                              Officer(O3, NameOf(CY), None),
                              Officer(O4, NameOf(DEE), None)>>)) @@
        (Co("4") :> Listing(<<Officer(O4, NameOf(DEE), None)>>)),
     appointments |->
        (O1 :> Listing(<<Appointment(Co("2"), NameOf(ANN), None),
                         Appointment(Co("1"), NameOf(ANN), None)>>)) @@
        (O2 :> Listing(<<Appointment(Co("2"), NameOf(BOB), None),
                         Appointment(Co("3"), NameOf(BOB), None)>>)) @@
        (O3 :> Listing(<<Appointment(Co("1"), NameOf(CY), None),
                         Appointment(Co("3"), NameOf(CY), None)>>)) @@
        (O4 :> Listing(<<Appointment(Co("3"), NameOf(DEE), None),
                         Appointment(Co("4"), NameOf(DEE), None)>>)),
     controllers |-> <<>>,
     controller |-> <<>>]

\* the query of a record is refused, or gives up after its last trial
Refused == [st |-> "perm"]
GivenUp == [st |-> "fail"]

\* Two active companies and a third whose record is refused (401 or 403);
\* the officer of the first leads to the third, and the query of the
\* appointments of the officer of the second gives up.
RegistryRefusing ==
    [company |->
        (Co("1") :> Company(<<"A">>, Some("active"), TRUE)) @@
        (Co("2") :> Company(<<"B">>, Some("active"), TRUE)) @@
        (Co("3") :> Refused),
     officers |->
        (Co("1") :> Listing(<<Officer(O1, NameOf(ANN), None)>>)) @@
        (Co("2") :> Listing(<<Officer(O2, NameOf(BOB), None)>>)),
     appointments |->
        (O1 :> Listing(<<Appointment(Co("1"), NameOf(ANN), None),
                         Appointment(Co("3"), NameOf(ANN), None)>>)) @@
        (O2 :> GivenUp),
     controllers |-> <<>>,
     controller |-> <<>>]

\* the names of two companies that sit on a board
ALTD == <<"A", " ", "L", "T", "D">>
BLTD == <<"B", " ", "L", "T", "D">>

\* Two companies and an id that is both a company's number and an officer's
\* id: the first company lists o1, o1 leads to the second, and the second
\* lists an officer whose id is the first company's number.
RegistryTwofold ==
    [company |->
        (Co("1") :> Company(<<"A">>, Some("active"), TRUE)) @@
        (Co("2") :> Company(<<"B">>, Some("active"), TRUE)),
     officers |->
        (Co("1") :> Listing(<<Officer(O1, NameOf(ANN), None)>>)) @@
        (Co("2") :> Listing(<<Officer(Co("1"), NameOf(ALTD), None)>>)),
     appointments |->
        (O1 :> Listing(<<Appointment(Co("1"), NameOf(ANN), None),
                         Appointment(Co("2"), NameOf(ANN), None)>>)) @@
        (Co("1") :> Listing(<<Appointment(Co("2"), NameOf(ALTD), None)>>)),
     controllers |-> <<>>,
     controller |-> <<>>]

\* The same the other way round: the first company lists o1 and an officer
\* whose id is the number of the second company, to which o1 leads.
RegistryTwofold2 ==
    [company |->
        (Co("1") :> Company(<<"A">>, Some("active"), TRUE)) @@
        (Co("2") :> Company(<<"B">>, Some("active"), TRUE)),
     officers |->
        (Co("1") :> Listing(<<Officer(O1, NameOf(ANN), None),
                              Officer(Co("2"), NameOf(BLTD), None)>>)) @@
        (Co("2") :> Listing(<<Officer(O1, NameOf(ANN), None)>>)),
     appointments |->
        (O1 :> Listing(<<Appointment(Co("1"), NameOf(ANN), None),
                         Appointment(Co("2"), NameOf(ANN), None)>>)) @@
        (Co("2") :> Listing(<<Appointment(Co("1"), NameOf(BLTD), None)>>)),
     controllers |-> <<>>,
     controller |-> <<>>]

\* One company whose officer has a second appointment, to a company whose
\* company_number is the empty string.
RegistryBlank ==
    [company |-> (Co("1") :> Company(<<"A">>, Some("active"), TRUE)),
     officers |-> (Co("1") :> Listing(<<Officer(O1, NameOf(ANN), None)>>)),
     appointments |->
        (O1 :> Listing(<<Appointment(Co("1"), NameOf(ANN), None),
                         Appointment(<<>>, NameOf(ANN), None)>>)),
     controllers |-> <<>>,
     controller |-> <<>>]

\* One company whose only officer resigned before today.
RegistryApart ==
    [company |-> (Co("1") :> Company(<<"A">>, Some("active"), TRUE)),
     officers |-> (Co("1") :> Listing(<<Officer(O1, NameOf(ANN), Some(5))>>)),
     appointments |->
        (O1 :> Listing(<<Appointment(Co("1"), NameOf(ANN), Some(5))>>)),
     controllers |-> <<>>,
     controller |-> <<>>]

Registries ==
    {RegistryInterlock, RegistryChain, RegistryNameless, RegistryNull,
     RegistryDiamond}

\* the registries the function get_company_network is called on
RegistriesOfFunction ==
    Registries \cup {RegistryTwofold, RegistryTwofold2, RegistryApart}

\* the registries, and the one that refuses and gives up
RegistriesRefusing == Registries \cup {RegistryRefusing}

\* the identifiers get_network is called with: a company number written
\* without its leading zeros, and full company numbers
RootIds == {<<"1">>, Co("2"), Co("3")}

\* the reply of the registry to a query of endpoint for id
Reply(endpoint, id) ==
    IF id \in DOMAIN registry[endpoint] THEN registry[endpoint][id]
    ELSE NotFound

\* the exception a reply makes companies_house_query raise
Raised(reply) ==
    CASE reply.st = "perm" -> "CompaniesHousePermissionError"
      [] reply.st = "fail" -> "Exception"
      [] OTHER -> NoExc

\* companies_house_query(query): the request is sent, and the reply is a
\* dict, None, or an exception
companies_house_query(s, endpoint, id) ==
    LET reply == Reply(endpoint, id)
    IN  [s |-> [s EXCEPT !.requests = Append(@, <<endpoint, id>>),
                         !.exc = Raised(reply)],
         v |-> IF reply.st = "ok" THEN reply ELSE NotFound]

---------------------------------------------------------------------------
(* The client's state as one value, threaded through its methods: the      *)
(* fields of self, the Graph objects, the clock, the requests sent, hops,  *)
(* the values of branch_iterator that _get_network has been called with    *)
(* since the call began, and exc, the exception being raised (NoExc when   *)
(* none is).                                                               *)

Self ==
    [branches |-> branches,
     include_significant_controllers |-> include_significant_controllers,
     include_officers |-> include_officers,
     include_edge_data |-> include_edge_data,
     enforce_missing_ties |-> enforce_missing_ties,
     exclude_non_active_companies |-> exclude_non_active_companies,
     exclude_resigned_board_members |-> exclude_resigned_board_members,
     exclude_ceased_controllers |-> exclude_ceased_controllers,
     compose_queried_networks |-> compose_queried_networks,
     _reset_cache |-> _reset_cache,
     _root_id |-> _root_id,
     _graph |-> _graph,
     _officer_appointments_cache |-> _officer_appointments_cache,
     _runs |-> _runs,
     _query_start |-> _query_start,
     _query_end |-> _query_end,
     heap |-> heap,
     clock |-> clock,
     requests |-> requests,
     hops |-> {},
     exc |-> NoExc]

\* the Graph object self._graph refers to
TheGraph(s) == s.heap[s._graph]

SetGraph(s, g) == [s EXCEPT !.heap[s._graph] = g]

Raise(s, e) == [s EXCEPT !.exc = e]

\* datetime.now(): the clock is read and moves on
Tick(s) == [s EXCEPT !.clock = @ + 1]

---------------------------------------------------------------------------
(* Pure functions of companies.py.                                         *)

\* a stringify_company_id that pads the empty str too
stringify_company_id_PadEmpty(company_id) ==
    IF Len(company_id) < 8 THEN rjust(company_id, 8, "0") ELSE company_id

\* stringify_company_id on a str
stringify_company_id(company_id) ==
    IF company_id # <<>> /\ Len(company_id) < 8
    THEN rjust(company_id, 8, "0")
    ELSE company_id

\* the characters of the decimal digits: DigitChars[d + 1] is the digit d
DigitChars == <<"0", "1", "2", "3", "4", "5", "6", "7", "8", "9">>

\* str(n) for an int n: its decimal form, after "-" when n is negative
RECURSIVE DecimalOf(_)
DecimalOf(n) ==
    IF n < 0 THEN <<"-">> \o DecimalOf(0 - n)
    ELSE IF n < 10 THEN <<DigitChars[n + 1]>>
    ELSE Append(DecimalOf(n \div 10), DigitChars[(n % 10) + 1])

\* the values stringify_company_id takes, Union[int, str]: an int n, or a
\* str s
PyInt(n) == [type |-> "int", n |-> n, s |-> <<>>]
PyStr(s) == [type |-> "str", n |-> 0, s |-> s]

\* str(company_id), for an int or a str
str(company_id) ==
    IF company_id.type = "int" THEN DecimalOf(company_id.n) ELSE company_id.s

\* stringify_company_id(company_id), for an int or a str
StringifyCompanyId(company_id) == stringify_company_id(str(company_id))

COMPANY_SUFFIXES == {<<"L", "T", "D">>, <<"L", "I", "M", "I", "T", "E", "D">>,
                     <<"L", "L", "C">>}

\* is_person(name) for a str name
is_person(name) == ~ \E suffix \in COMPANY_SUFFIXES : Contains(name, suffix)

\* is_individual_controller_url(url): "persons" in url and "individual" in
\* url
is_individual_controller_url(url) ==
    /\ Contains(url, <<"p", "e", "r", "s", "o", "n", "s">>)
    /\ Contains(url, INDIVIDUAL)

\* an is_inactive that tests only that the key is present
is_inactive_KeyOnly(person_data, keyword, today) ==
    person_data[keyword] # None

\* is_inactive(person_data, keyword): the key is present and its date,
\* parsed, lies before datetime.today()
is_inactive(person_data, keyword, today) ==
    /\ person_data[keyword] # None
    /\ person_data[keyword][1] < today

\* data["data"] of a node, as is_inactive reads it: None, or a dict with
\* or without a "resigned_on" entry.  The node of an officer that the
\* function get_company_network added holds the officer's entry of the
\* listing; the page of an officer's appointments, the record of a
\* controller, the profile of a company and the record of a charity or a
\* trustee have no "resigned_on" entry of their own.
PersonData(attr) ==
    IF attr.data.tag = "officer"
    THEN [st |-> "ok", resigned_on |-> attr.data.reply.resigned_on]
    ELSE IF attr.data.tag \in {"appointments", "controller"}
            /\ attr.data.reply.st # "ok"
    THEN [st |-> "none", resigned_on |-> None]
    ELSE [st |-> "ok", resigned_on |-> None]

\* A Graph with any attributes: its nodes, <<id, attributes>>, and its
\* edges, <<u, v, attributes>>, in the order they were added.
EmptyGraph == [nodes |-> <<>>, edges |-> <<>>]

\* int(s) for a str of digits
RECURSIVE int(_)
int(s) ==
    IF Len(s) = 0 THEN 0
    ELSE 10 * int(SubSeq(s, 1, Len(s) - 1))
         + (CHOOSE d \in 0..9 : DigitChars[d + 1] = s[Len(s)])

\* the value a row has no entry for, or None
NoValue == [type |-> "none", n |-> 0, s |-> <<>>]

\* OrganisationEntry(data): name is data["Organisation"], None for a row
\* without that key; charity is data["Charity"], an int, a str or NoValue;
\* company_id is what the property of that name returns, None or an id
OrganisationEntry(name, charity, company_id, skip_charity, skip_company) ==
    [name |-> name, charity |-> charity, company_id |-> company_id,
     _skip_charity |-> skip_charity, _skip_company |-> skip_company,
     charity_network |-> None, company_network |-> None]

\* the charity_id property: [exc, v].  For a value that is true, not an int
\* and not a str of digits, _charity_id is not set and the log line formats
\* self, whose __str__ reads self.name and then charity_id again
charity_id(organisation) ==
    IF organisation.charity.type = "none" THEN [exc |-> NoExc, v |-> None]
    ELSE IF organisation.charity.type = "int"
    THEN [exc |-> NoExc,
          v |-> IF organisation.charity.n = 0 THEN None
                ELSE Some(organisation.charity.n)]
    ELSE IF organisation.charity.s = <<>> THEN [exc |-> NoExc, v |-> None]
    ELSE IF isdigit(organisation.charity.s)
    THEN [exc |-> NoExc, v |-> Some(int(organisation.charity.s))]
    ELSE IF organisation.name = None
    THEN [exc |-> "AttributeError", v |-> None]
    ELSE [exc |-> "RecursionError", v |-> None]

\* OrganisationSequence(...): the dataclass's defaults around the
\* organisations read and the two clients' parameters
OrganisationSequence(organisations, charity_hops, company_hops) ==
    [organisations |-> organisations,
     charity_client_params |-> [branches |-> charity_hops],
     company_client_params |-> [branches |-> company_hops],
     _charity_runs |-> <<>>, _company_runs |-> <<>>,
     _charity_composed_runs |-> <<>>, _company_composed_runs |-> <<>>,
     _charity_networks_cached |-> FALSE, _company_networks_cached |-> FALSE,
     has_company_client |-> FALSE]

\* no OrganisationSequence is made
NoSequence == OrganisationSequence(<<>>, 0, 0)

\* a generator of get_charity_networks_generator or of
\* get_company_networks_generator that is suspended at its yield: its kind
\* and the index i that the for loop over the sequence reads next
Iterating(kind, i) == [kind |-> kind, i |-> i]

\* no generator of the sequence is suspended
NotIterating == Iterating("", 0)

\* what write_json_graph is given before it is given anything
NotWritten == [graph |-> EmptyGraph, additional_data |-> None]

\* what read_json_graph returns before it is called
NotRead == [done |-> FALSE, additional_data |-> FALSE, exc |-> NoExc,
            graph |-> EmptyGraph, metadata |-> None]

\* filter_active_board_members has not been called
NotFiltered == [done |-> FALSE, exc |-> NoExc, g |-> Graph, v |-> Graph]

\* the nodes the list comprehension of filter_active_board_members keeps
\* for removal
inactive_board_members(g, today) ==
    {id \in NodeIds(g) :
        /\ g.nodes[id].bipartite = 1
        /\ is_inactive(PersonData(g.nodes[id]), "resigned_on", today)}

\* Graph.remove_nodes_from(nodes): the nodes go, and their edges
remove_nodes_from(g, nodes) ==
    [nodes |-> [n \in NodeIds(g) \ nodes |-> g.nodes[n]],
     edges |-> [e \in {x \in EdgeIds(g) : x \cap nodes = {}} |-> g.edges[e]],
     order |-> SelectSeq(g.order, LAMBDA n : n \notin nodes)]

\* the exception the list comprehension of filter_active_board_members
\* ends with, from the i-th node of Graph.nodes on: data["bipartite"] and
\* data["data"] raise KeyError for an attribute the node lacks, and
\* `keyword in person_data` raises TypeError for a data of None
RECURSIVE ComprehensionRaises(_, _)
ComprehensionRaises(g, i) ==
    IF i > Len(g.order) THEN NoExc
    ELSE IF "bipartite" \notin g.nodes[g.order[i]].keys THEN "KeyError"
    ELSE IF g.nodes[g.order[i]].bipartite # 1
    THEN ComprehensionRaises(g, i + 1)
    ELSE IF "data" \notin g.nodes[g.order[i]].keys THEN "KeyError"
    ELSE IF PersonData(g.nodes[g.order[i]]).st = "none" THEN "TypeError"
    ELSE ComprehensionRaises(g, i + 1)

\* filter_active_board_members(g): g itself is copied, not changed
filter_active_board_members(g, today) ==
    IF ComprehensionRaises(g, 1) # NoExc
    THEN [done |-> TRUE, exc |-> ComprehensionRaises(g, 1), g |-> g,
          v |-> Graph]
    ELSE [done |-> TRUE, exc |-> NoExc, g |-> g,
          v |-> remove_nodes_from(g, inactive_board_members(g, today))]

\* COMPANIES_HOUSE_URI_CODES: the category of each two-letter prefix of a
\* company number, and under "" that of the numbers of digits only
COMPANIES_HOUSE_URI_CODES ==
    (<<"C", "E">> :> "Charitable incorporated organisation") @@
    (<<"C", "S">> :> "Scottish charitable incorporated organisation") @@
    (<<"S", "G">> :> "Scottish qualifying partnership") @@
    (<<"I", "P">> :> "Industrial & Provident Company") @@
    (<<"S", "P">> :> "Scottish Industrial/Provident Company") @@
    (<<"I", "C">> :> "ICVC (Investment Company with Variable Capital") @@
    (<<"S", "I">> :> "Scottish ICVC (Investment Company with Variable Capital") @@
    (<<"N", "P">> :> "Northern Ireland Industrial/Provident Company or Credit Union") @@
    (<<"N", "V">> :> "Northern Ireland ICVC (Investment Company with Variable Capital") @@
    (<<"R", "C">> :> "Royal Charter Companies (English/Wales") @@
    (<<"S", "R">> :> "Scottish Royal Charter Companies") @@
    (<<"N", "R">> :> "Northern Ireland Royal Charter Companies") @@
    (<<"N", "O">> :> "Northern Ireland Credit Union Industrial/Provident Society") @@
    (<<>> :> "England & Wales Company") @@
    (<<"A", "C">> :> "Assurance Company for England & Wales") @@
    (<<"Z", "C">> :> "Unregistered Companies (S 1043 - Not Cos Act for England & Wales") @@
    (<<"F", "C">> :> "Overseas Company") @@
    (<<"G", "E">> :> "European Economic Interest Grouping (EEIG for England & Wales") @@
    (<<"L", "P">> :> "Limited for England & Wales") @@
    (<<"O", "C">> :> "Limited Liability Partnership for England & Wales") @@
    (<<"S", "E">> :> "European Company (Societas Europaea for England & Wales") @@
    (<<"S", "A">> :> "Assurance Company for Scotland") @@
    (<<"S", "Z">> :> "Unregistered Companies (S 1043 Not Cos Act for Scotland") @@
    (<<"S", "F">> :> "Overseas Company registered in Scotland (pre 1/10/09") @@
    (<<"G", "S">> :> "European Economic Interest Grouping (EEIG for Scotland") @@
    (<<"S", "L">> :> "Limited Partnership for Scotland") @@
    (<<"S", "O">> :> "Limited Liability Partnership for Scotland") @@
    (<<"S", "C">> :> "Scottish Company") @@
    (<<"E", "S">> :> "European Company (Societas Europaea for Scotland") @@
    (<<"N", "A">> :> "Assurance Company for Northern Ireland") @@
    (<<"N", "Z">> :> "Unregistered Companies (S 1043 Not Cos Act for Northern Ireland") @@
    (<<"N", "F">> :> "Overseas Company registered in Northern Ireland (pre 1/10/09") @@
    (<<"G", "N">> :> "European Economic Interest Grouping (EEIG for Northern Ireland") @@
    (<<"N", "L">> :> "Limited Partnership for Northern Ireland") @@
    (<<"N", "C">> :> "Limited Liability Partnership for Northern Ireland") @@
    (<<"R", "0">> :> "Northern Ireland Company (pre-partition") @@
    (<<"N", "I">> :> "Northern Ireland Company (post-partition") @@
    (<<"E", "N">> :> "European Company (Societas Europaea for Northern Ireland")

\* get_company_category: [exc, v]
get_company_category(company_id) ==
    LET id == stringify_company_id(company_id)
        prefix == SubSeq(id, 1, IF Len(id) < 2 THEN Len(id) ELSE 2)
    IN  IF isdigit(id)
        THEN [exc |-> NoExc, v |-> COMPANIES_HOUSE_URI_CODES[<<>>]]
        ELSE IF prefix \in DOMAIN COMPANIES_HOUSE_URI_CODES
        THEN [exc |-> NoExc, v |-> COMPANIES_HOUSE_URI_CODES[prefix]]
        ELSE [exc |-> "KeyError", v |-> ""]

\* the kinds of the nodes of a company network
COMPANY_NETWORK_KINDS == <<"company", "officer", "controller">>

\* a get_kinds_ids_dict that passes over the nodes without a "kind"
get_kinds_ids_dict_KindlessSkipped(g, kinds) ==
    [exc |-> NoExc,
     v |-> Some([k \in {kinds[i] : i \in 1..Len(kinds)} |->
                    {n \in NodeIds(g) : g.nodes[n].kind = k}])]

\* get_kinds_ids_dict(graph, COMPANY_NETWORK_KINDS): [exc, v]; a node
\* without a "kind" attribute raises KeyError
get_kinds_ids_dict(g, kinds) ==
    IF \E n \in NodeIds(g) :
          ~ g.nodes[n].has \/ g.nodes[n].kind \notin {kinds[i] : i \in 1..Len(kinds)}
    THEN [exc |-> "KeyError", v |-> None]
    ELSE [exc |-> NoExc,
          v |-> Some([k \in {kinds[i] : i \in 1..Len(kinds)} |->
                         {n \in NodeIds(g) : g.nodes[n].kind = k}])]

---------------------------------------------------------------------------
(* Registry query functions.  A query function takes the state and returns *)
(* [s |-> the state after the request, v |-> the reply].                   *)

\* the lines of get_company_data after the query
ExcludeNonActive(q, exclude) ==
    IF q.s.exc # NoExc \/ q.v.st # "ok" THEN q
    ELSE IF /\ exclude
            /\ q.v.company_status # None
            /\ q.v.company_status[1] # "active"
    THEN [s |-> q.s, v |-> NotFound]
    ELSE q

\* get_company_data(company_id, exclude_non_active_companies)
get_company_data(s, company_id, exclude) ==
    ExcludeNonActive(
        companies_house_query(s, "company", stringify_company_id(company_id)),
        exclude)

\* get_company_officers_data(company_id)
get_company_officers_data(s, company_id) ==
    companies_house_query(s, "officers", company_id)

\* get_officer_appointments_data(officer_id)
get_officer_appointments_data(s, officer_id) ==
    companies_house_query(s, "appointments", officer_id)

\* get_significant_controllers_data(company_id)
get_significant_controllers_data(s, company_id) ==
    companies_house_query(s, "controllers", company_id)

\* get_significant_controller_person_or_company_data(controller_data): one
\* query of the controller's own record in each of its three branches
get_significant_controller_person_or_company_data(s, controller_data) ==
    companies_house_query(s, "controller", controller_data.id)

\* what a generator of listing entries does when it is iterated: v, the
\* entries it yields in order, and exc, the exception that then ends it
NoYields == [v |-> <<>>, exc |-> NoExc]

\* the for loop of get_company_officers from items[i] on, after yielding
\* the entries of y: a resigned officer is skipped when exclude is set, and
\* both log lines read officer["name"]
RECURSIVE OfficersFrom(_, _, _, _, _)
OfficersFrom(items, exclude, today, i, y) ==
    IF i > Len(items) THEN y
    ELSE IF items[i].name.st = "missing" THEN [y EXCEPT !.exc = "KeyError"]
    ELSE IF exclude /\ is_inactive(items[i], "resigned_on", today)
    THEN OfficersFrom(items, exclude, today, i + 1, y)
    ELSE OfficersFrom(items, exclude, today, i + 1,
                      [y EXCEPT !.v = Append(@, items[i])])

\* the generator get_company_officers returns, for the listing of q
YieldOfficers(q, exclude, today) ==
    [s |-> q.s,
     v |-> IF q.s.exc # NoExc \/ q.v.st # "ok" THEN NoYields
           ELSE OfficersFrom(q.v.items, exclude, today, 1, NoYields)]

\* get_company_officers(company_id, exclude_resigned_board_members,
\* officers_query): it queries the listing again when it is handed none
get_company_officers(s, company_id, exclude, officers_query) ==
    YieldOfficers(IF officers_query.st # "ok"
                  THEN get_company_officers_data(s, company_id)
                  ELSE [s |-> s, v |-> officers_query],
                  exclude, s.clock)

\* the for loop of get_significant_controllers from items[i] on, after
\* yielding the entries of y: with exclude set the body reaches its
\* continue for every controller, after a log line that reads
\* controller["name"] of a ceased one; the log line before the yield reads
\* controller["name"] too
RECURSIVE ControllersFrom(_, _, _, _, _)
ControllersFrom(items, exclude, today, i, y) ==
    IF i > Len(items) THEN y
    ELSE IF exclude
    THEN IF /\ is_inactive(items[i], "ceased_on", today)
            /\ items[i].name.st = "missing"
         THEN [y EXCEPT !.exc = "KeyError"]
         ELSE ControllersFrom(items, exclude, today, i + 1, y)
    ELSE IF items[i].name.st = "missing" THEN [y EXCEPT !.exc = "KeyError"]
    ELSE ControllersFrom(items, exclude, today, i + 1,
                         [y EXCEPT !.v = Append(@, items[i])])

\* the generator get_significant_controllers returns, for the listing of q
YieldControllers(q, exclude, today) ==
    [s |-> q.s,
     v |-> IF q.s.exc # NoExc \/ q.v.st # "ok" THEN NoYields
           ELSE ControllersFrom(q.v.items, exclude, today, 1, NoYields)]

\* get_significant_controllers(company_id, controllers_data,
\* exclude_ceased_controllers)
get_significant_controllers(s, company_id, controllers_data, exclude) ==
    YieldControllers(IF controllers_data.st # "ok"
                     THEN get_significant_controllers_data(s, company_id)
                     ELSE [s |-> s, v |-> controllers_data],
                     exclude, s.clock)

---------------------------------------------------------------------------
(* CompanyNetworkClient: the crawl.  Each method is a chain of operators,  *)
(* one per group of statements, that hand the state on.                    *)

RECURSIVE _get_network(_, _, _)
RECURSIVE _include_officers_loop(_, _, _, _, _)
RECURSIVE _include_controllers_loop(_, _, _, _, _)
RECURSIVE _add_person_edge_branch(_, _, _, _, _, _)
RECURSIVE _get_network_branches(_, _, _)
RECURSIVE _get_network_branches_loop(_, _, _, _, _)

\* the dict _add_officer caches for an officer: company_number -> appointment,
\* without the appointments that carry a resigned_on key when
\* exclude_resigned_board_members is set
RECURSIVE AppointmentsDict(_, _, _)
AppointmentsDict(items, exclude, i) ==
    IF i = 0 THEN <<>>
    ELSE IF exclude /\ items[i].resigned_on # None
    THEN AppointmentsDict(items, exclude, i - 1)
    ELSE DictSet(AppointmentsDict(items, exclude, i - 1),
                 items[i].company_number[1], items[i])

\* whether self._officer_appointments_cache[officer_id][company_id]["name"]
\* is there
CachedNameHit(cache, officer_id, company_id) ==
    /\ officer_id \in DOMAIN cache
    /\ DictHas(cache[officer_id], company_id)
    /\ DictGet(cache[officer_id], company_id).name.st # "missing"

\* _get_officer_name(officer_id, company_id, board_data) with both given:
\* [exc, v], v a name entry (a str or null)
_get_officer_name(s, officer_id, company_id, board_data) ==
    LET cache == s._officer_appointments_cache
        hit == CachedNameHit(cache, officer_id, company_id)
    IN  IF /\ hit
           /\ DictGet(cache[officer_id], company_id).name.st = "str"
           /\ DictGet(cache[officer_id], company_id).name.s # <<>>
        THEN [exc |-> NoExc, v |-> DictGet(cache[officer_id], company_id).name]
        ELSE IF ~ hit /\ board_data.name.st = "missing"
        THEN \* the warning of the except clause reads board_data["name"]
             [exc |-> "KeyError", v |-> NameNull]
        ELSE IF board_data.name.st = "missing"
        THEN [exc |-> NoExc, v |-> NameOf(<<>>)]
        ELSE [exc |-> NoExc, v |-> board_data.name]

\* the first statements of _add_officer: the appointments are cached
CacheAppointments(q, officer_id) ==
    IF q.s.exc = NoExc /\ q.v.st = "ok"
    THEN [q.s EXCEPT !._officer_appointments_cache =
              (officer_id :>
                  AppointmentsDict(q.v.items,
                                   q.s.exclude_resigned_board_members,
                                   Len(q.v.items))) @@ @]
    ELSE q.s

\* the last statements of _add_officer: is_person(name) and add_node
AddOfficerNode(s, officer_id, name, appointments_data) ==
    IF s.exc # NoExc THEN s
    ELSE IF name.exc # NoExc THEN Raise(s, name.exc)
    ELSE IF name.v.st = "null" THEN Raise(s, "TypeError")  \* is_person(None)
    ELSE SetGraph(s, add_node(TheGraph(s), officer_id,
             [keys |-> {"name", "bipartite", "kind", "is_person", "data"},
              name |-> name.v.s, bipartite |-> 1,
              kind |-> COMPANY_NETWORK_KINDS[2],
              is_person |-> is_person(name.v.s),
              data |-> [tag |-> "appointments", reply |-> appointments_data]]))

AddOfficerNamed(s, officer_id, company_id, officer_board_data, appointments_data) ==
    AddOfficerNode(s, officer_id,
                   _get_officer_name(s, officer_id, company_id,
                                     officer_board_data),
                   appointments_data)

AddOfficerQueried(q, officer_id, company_id, officer_board_data) ==
    AddOfficerNamed(CacheAppointments(q, officer_id), officer_id, company_id,
                    officer_board_data, q.v)

\* _add_officer(officer_id, company_id, officer_board_data)
_add_officer(s, officer_id, company_id, officer_board_data) ==
    AddOfficerQueried(get_officer_appointments_data(s, officer_id),
                      officer_id, company_id, officer_board_data)

\* the statements of _add_controller after the query
AddControllerNode(q, controller_id, controller_company_data) ==
    IF q.s.exc # NoExc THEN q.s
    ELSE IF controller_company_data.name.st = "missing"
    THEN Raise(q.s, "KeyError")
    ELSE IF controller_company_data.name.st = "null"
    THEN Raise(q.s, "TypeError")  \* is_person(None)
    ELSE SetGraph(q.s, add_node(TheGraph(q.s), controller_id,
             [keys |-> {"name", "bipartite", "kind", "is_person", "data"},
              name |-> controller_company_data.name.s,
              bipartite |-> 1, kind |-> COMPANY_NETWORK_KINDS[3],
              is_person |-> /\ is_individual_controller_url(
                                   controller_company_data.link)
                            /\ is_person(controller_company_data.name.s),
              data |-> [tag |-> "controller", reply |-> q.v]]))

\* _add_controller(controller_id, company_id, controller_company_data)
_add_controller(s, controller_id, company_id, controller_company_data) ==
    AddControllerNode(
        get_significant_controller_person_or_company_data(
            s, controller_company_data),
        controller_id, controller_company_data)

\* _add_person_edge_branch, first statement: the person's node is added by
\* the method named, unless the id is a node already
AddPersonUnlessNode(s, person_id, company_id, data, method_name) ==
    IF person_id \in NodeIds(TheGraph(s)) THEN s
    ELSE IF method_name = "_add_officer"
    THEN _add_officer(s, person_id, company_id, data)
    ELSE _add_controller(s, person_id, company_id, data)

\* _add_person_edge_branch, second statement: add_edge
AddPersonEdge(s, person_id, company_id, data) ==
    IF s.exc # NoExc THEN s
    ELSE SetGraph(s, add_edge(TheGraph(s), company_id, person_id, Some(data)))

\* an if statement that branches at branch_iterator = self.branches too
BranchOrRaise_Inclusive(s, person_id, branch_iterator) ==
    IF s.exc # NoExc THEN s
    ELSE IF 0 <= branch_iterator /\ branch_iterator <= s.branches
    THEN _get_network_branches(s, person_id, branch_iterator)
    ELSE IF branch_iterator < 0
    THEN Raise(s, "NegativeIntBranchException")
    ELSE Raise(s, "ExceededMaxBranchesException")

\* _add_person_edge_branch, the if statement on branch_iterator
BranchOrRaise(s, person_id, branch_iterator) ==
    IF s.exc # NoExc THEN s
    ELSE IF 0 <= branch_iterator /\ branch_iterator < s.branches
    THEN _get_network_branches(s, person_id, branch_iterator)
    ELSE IF branch_iterator < 0
    THEN Raise(s, "NegativeIntBranchException")
    ELSE IF branch_iterator > s.branches
    THEN Raise(s, "ExceededMaxBranchesException")
    ELSE s

\* _add_person_edge_branch(person_id, company_id, data, branch_iterator,
\* method_name)
_add_person_edge_branch(s, person_id, company_id, data, branch_iterator, method_name) ==
    BranchOrRaise(
        AddPersonEdge(
            AddPersonUnlessNode(s, person_id, company_id, data, method_name),
            person_id, company_id, data),
        person_id, branch_iterator)

\* the for loop of _include_officers over the generator's yields from the
\* i-th on
_include_officers_loop(s, company_id, officers, branch_iterator, i) ==
    IF s.exc # NoExc THEN s
    ELSE IF i > Len(officers.v) THEN Raise(s, officers.exc)
    ELSE _include_officers_loop(
             _add_person_edge_branch(s, officers.v[i].id, company_id,
                                     officers.v[i], branch_iterator,
                                     "_add_officer"),
             company_id, officers, branch_iterator, i + 1)

\* company_info_dict[key] = reply: the dict is the data of the company's node
SetCompanyInfo(q, company_id, key) ==
    IF q.s.exc # NoExc THEN q.s
    ELSE SetGraph(q.s, [TheGraph(q.s) EXCEPT
                            !.nodes[company_id].data[key] = q.v])

IncludeOfficersYielded(officers, company_id, branch_iterator) ==
    _include_officers_loop(officers.s, company_id, officers.v,
                           branch_iterator, 1)

IncludeOfficersQueried(q, company_id, branch_iterator) ==
    IF q.s.exc # NoExc THEN q.s
    ELSE IncludeOfficersYielded(
             get_company_officers(SetCompanyInfo(q, company_id, "officers"),
                                  company_id,
                                  q.s.exclude_resigned_board_members, q.v),
             company_id, branch_iterator)

\* _include_officers(company_id, company_info_dict, branch_iterator)
_include_officers(s, company_id, branch_iterator) ==
    IncludeOfficersQueried(get_company_officers_data(s, company_id),
                           company_id, branch_iterator)

\* the for loop of _include_controllers over the generator's yields from
\* the i-th on
_include_controllers_loop(s, company_id, controllers, branch_iterator, i) ==
    IF s.exc # NoExc THEN s
    ELSE IF i > Len(controllers.v) THEN Raise(s, controllers.exc)
    ELSE _include_controllers_loop(
             _add_person_edge_branch(s, controllers.v[i].id, company_id,
                                     controllers.v[i], branch_iterator,
                                     "_add_controller"),
             company_id, controllers, branch_iterator, i + 1)

IncludeControllersYielded(controllers, company_id, branch_iterator) ==
    _include_controllers_loop(controllers.s, company_id, controllers.v,
                              branch_iterator, 1)

IncludeControllersQueried(q, company_id, branch_iterator) ==
    IF q.s.exc # NoExc THEN q.s
    ELSE IncludeControllersYielded(
             get_significant_controllers(
                 SetCompanyInfo(q, company_id, "significant_controllers"),
                 company_id, q.v, q.s.exclude_ceased_controllers),
             company_id, branch_iterator)

\* _include_controllers(company_id, company_info_dict, branch_iterator)
_include_controllers(s, company_id, branch_iterator) ==
    IncludeControllersQueried(get_significant_controllers_data(s, company_id),
                              company_id, branch_iterator)

\* _get_network: self._query_start = datetime.now() for the root
SetQueryStart(s, company_id) ==
    IF company_id = s._root_id
    THEN Tick([s EXCEPT !._query_start = Some(s.clock)])
    ELSE s

\* _get_network: self._query_end = datetime.now() for the root
SetQueryEnd(s, company_id) ==
    IF s.exc = NoExc /\ company_id = s._root_id
    THEN Tick([s EXCEPT !._query_end = Some(s.clock)])
    ELSE s

\* _get_network: self._graph.add_node(company_id, ...)
AddCompanyNode(q, company_id) ==
    SetGraph(q.s, add_node(TheGraph(q.s), company_id,
        [keys |-> NodeKeys, name |-> q.v.company_name, kind |-> "company",
         is_person |-> FALSE,
         category |-> get_company_category(company_id).v,
         bipartite |-> 0,
         data |-> [tag |-> "company_info", company |-> q.v,
                   officers |-> [st |-> "unset"],
                   significant_controllers |-> [st |-> "unset"]]]))

\* _get_network: the if statement on include_officers and the officers link
IncludeOfficersIf(s, company_data, company_id, branch_iterator) ==
    IF s.include_officers /\ company_data.officers_link
    THEN _include_officers(s, company_id, branch_iterator)
    ELSE s

\* _get_network: the if statement on include_significant_controllers
IncludeControllersIf(s, company_id, branch_iterator) ==
    IF s.exc = NoExc /\ s.include_significant_controllers
    THEN _include_controllers(s, company_id, branch_iterator)
    ELSE s

\* _get_network after get_company_data: nothing is added for no record
GetNetworkQueried(q, company_id, branch_iterator) ==
    IF q.s.exc # NoExc \/ q.v.st # "ok" THEN q.s
    ELSE IF get_company_category(company_id).exc # NoExc
    THEN Raise(q.s, get_company_category(company_id).exc)
    ELSE SetQueryEnd(
             IncludeControllersIf(
                 IncludeOfficersIf(AddCompanyNode(q, company_id), q.v,
                                   company_id, branch_iterator),
                 company_id, branch_iterator),
             company_id)

GetNetworkOf(s, company_id, branch_iterator) ==
    IF company_id = <<>> THEN Raise(s, "AssertionError")
    ELSE GetNetworkQueried(
             get_company_data(SetQueryStart(s, company_id), company_id,
                              s.exclude_non_active_companies),
             company_id, branch_iterator)

\* _get_network is entered with branch_iterator
Invoked(s, branch_iterator) == [s EXCEPT !.hops = @ \cup {branch_iterator}]

\* _get_network(company_id, branch_iterator); company_id None stands for
\* the call without arguments
_get_network(s, company_id, branch_iterator) ==
    GetNetworkOf(Invoked(s, branch_iterator),
                 IF company_id = None THEN s._root_id ELSE company_id,
                 branch_iterator)

\* _get_network_branches: the edge added when enforce_missing_ties is set
EnforceTie(s, person_id, related_company_id) ==
    IF s.exc = NoExc /\ s.enforce_missing_ties
    THEN SetGraph(s, add_edge(TheGraph(s), person_id, related_company_id, None))
    ELSE s

\* the for loop of _get_network_branches over the keys[i..] of the cached
\* dict of person_id
_get_network_branches_loop(s, person_id, branch_iteration, keys, i) ==
    IF s.exc # NoExc \/ i > Len(keys) THEN s
    ELSE _get_network_branches_loop(
             IF keys[i] \in NodeIds(TheGraph(s)) THEN s
             ELSE EnforceTie(_get_network(s, keys[i], branch_iteration + 1),
                             person_id, keys[i]),
             person_id, branch_iteration, keys, i + 1)

\* an except clause that catches nothing
CatchKeyError_Never(s) == s

\* the except KeyError clause of _get_network_branches
CatchKeyError(s) == IF s.exc = "KeyError" THEN Raise(s, NoExc) ELSE s

\* _get_network_branches(person_id, branch_iteration): the KeyError of a
\* person without a cache entry, or one raised anywhere inside the loop,
\* ends the loop and is logged
_get_network_branches(s, person_id, branch_iteration) ==
    CatchKeyError(
        IF person_id \notin DOMAIN s._officer_appointments_cache
        THEN Raise(s, "KeyError")
        ELSE _get_network_branches_loop(
                 s, person_id, branch_iteration,
                 DictKeys(s._officer_appointments_cache[person_id]), 1))

---------------------------------------------------------------------------
(* CompanyNetworkClient: the public calls.                                 *)

\* the _parameter_state property: the arguments of __init__ as they are now
_parameter_state(s) ==
    [branches |-> s.branches,
     include_significant_controllers |-> s.include_significant_controllers,
     include_officers |-> s.include_officers,
     include_edge_data |-> s.include_edge_data,
     enforce_missing_ties |-> s.enforce_missing_ties,
     exclude_non_active_companies |-> s.exclude_non_active_companies,
     exclude_resigned_board_members |-> s.exclude_resigned_board_members,
     exclude_ceased_controllers |-> s.exclude_ceased_controllers,
     reset_cache |-> s._reset_cache,
     compose_queried_networks |-> s.compose_queried_networks]

\* CompanyRunConfig(root_id=..., start_time=None, end_time=None,
\* parameter_state=...)
CompanyRunConfig(root_id, parameter_state) ==
    [root_id |-> root_id, kind |-> "company",
     parameter_state |-> parameter_state,
     start_time |-> None, end_time |-> None,
     connected_components_count |-> None, kinds_ids_dict |-> None,
     composed_runs |-> <<>>]

\* whether get_network runs a crawl: the condition of its if statement
RunsCrawl(s) ==
    \/ s._reset_cache
    \/ GraphLen(TheGraph(s)) = 0
    \/ s.compose_queried_networks

\* a get_network that starts every crawl from a new Graph and an empty cache
ResetsGraph_Always(s) == TRUE

\* a get_network that never replaces the Graph nor empties the cache
ResetsGraph_Never(s) == FALSE

\* whether the crawl starts from a new Graph and an empty cache
ResetsGraph(s) == ~ s.compose_queried_networks \/ s._reset_cache

\* get_network: self._graph = Graph(); self._officer_appointments_cache = {}
ResetGraphIf(s) ==
    IF ResetsGraph(s)
    THEN [s EXCEPT !.heap = Append(@, Graph),
                   !._graph = Len(s.heap) + 1,
                   !._officer_appointments_cache = <<>>]
    ELSE s

\* get_network: the run is appended and self._root_id set
AppendRun(s, root_id) ==
    [s EXCEPT !._runs = Append(@, CompanyRunConfig(root_id, _parameter_state(s))),
              !._root_id = root_id]

\* get_network: self._runs[-1].kinds_ids_dict = get_kinds_ids_dict(...)
SetKindsIdsDict(s) ==
    IF s.exc # NoExc THEN s
    ELSE IF get_kinds_ids_dict(TheGraph(s), COMPANY_NETWORK_KINDS).exc # NoExc
    THEN Raise(s, get_kinds_ids_dict(TheGraph(s), COMPANY_NETWORK_KINDS).exc)
    ELSE [s EXCEPT !._runs[Len(s._runs)].kinds_ids_dict =
              get_kinds_ids_dict(TheGraph(s), COMPANY_NETWORK_KINDS).v]

\* get_network: self._runs[-1].start_time = self._query_start
SetStartTime(s) ==
    IF s.exc # NoExc THEN s
    ELSE IF s._query_start = None THEN Raise(s, "AttributeError")
    ELSE [s EXCEPT !._runs[Len(s._runs)].start_time = s._query_start]

\* get_network: self._runs[-1].end_time = self._query_end
SetEndTime(s) ==
    IF s.exc # NoExc THEN s
    ELSE IF s._query_end = None THEN Raise(s, "AttributeError")
    ELSE [s EXCEPT !._runs[Len(s._runs)].end_time = s._query_end]

\* get_network: self._runs[-1].connected_components_count = ...
SetConnectedComponentsCount(s) ==
    IF s.exc # NoExc THEN s
    ELSE [s EXCEPT !._runs[Len(s._runs)].connected_components_count =
              Some(number_connected_components(TheGraph(s)))]

\* get_network(root_id): the state it leaves; the graph it returns is
\* self._graph of that state unless exc is set
get_network(s, root_id) ==
    IF ~ RunsCrawl(s) THEN s
    ELSE SetConnectedComponentsCount(SetEndTime(SetStartTime(SetKindsIdsDict(
             _get_network(
                 ResetGraphIf(AppendRun(s, stringify_company_id(root_id))),
                 None, 0)))))

---------------------------------------------------------------------------
(* CompanyNetworkClient: the generators and the composed calls.  A         *)
(* generator is a record of its seeds, the index of the seed it resumes    *)
(* at, what it has yielded and the exception that ended it; r is the pair  *)
(* [s |-> the client's state, g |-> the generator].                        *)

NoGenerator ==
    [kind |-> "", composed_query |-> FALSE, root_ids |-> <<>>, next |-> 1,
     yielded |-> <<>>, exc |-> NoExc]

\* the generator object a call of networks_generator or
\* async_networks_generator makes: none of its body has run
NewGenerator(kind, root_ids, composed_query) ==
    [NoGenerator EXCEPT !.kind = kind, !.root_ids = root_ids,
                        !.composed_query = composed_query]

\* a yielded Graph object: the reference, and for later comparison the
\* value it has, the cache and reset_cache at the moment of the yield
Yielded(s) ==
    [ref |-> s._graph, graph |-> TheGraph(s),
     cache |-> s._officer_appointments_cache,
     reset_cache |-> s._reset_cache]

\* yield <the graph get_network returned>: the generator is suspended after
\* the seed, or ended by the exception get_network raised
Yield(s, g) ==
    [s |-> s,
     g |-> [g EXCEPT !.next = @ + 1,
                     !.exc = s.exc,
                     !.yielded = IF s.exc = NoExc THEN Append(@, Yielded(s))
                                 ELSE @]]

\* a pass that takes the seeds from the end of root_ids
NetworksGeneratorPass_Reversed(r) ==
    Yield(get_network(r.s, r.g.root_ids[Len(r.g.root_ids) + 1 - r.g.next]),
          r.g)

\* networks_generator: one pass of its for loop, up to the yield
NetworksGeneratorPass(r) ==
    Yield(get_network(r.s, r.g.root_ids[r.g.next]), r.g)

\* an async pass that crawls its seed on a graph and a cache of its own
AsyncNetworksGeneratorPass_OwnGraph(r) ==
    Yield(get_network([r.s EXCEPT !._reset_cache = TRUE],
                      r.g.root_ids[r.g.next]),
          r.g)

\* async_networks_generator: one pass of its for loop, up to the yield;
\* the body awaits nothing
AsyncNetworksGeneratorPass(r) ==
    Yield(get_network(r.s, r.g.root_ids[r.g.next]), r.g)

\* networks_generator consumed to its end
RECURSIVE networks_generator(_)
networks_generator(r) ==
    IF r.g.exc # NoExc \/ r.g.next > Len(r.g.root_ids) THEN r
    ELSE networks_generator(NetworksGeneratorPass(r))

\* async_networks_generator consumed to its end
RECURSIVE async_networks_generator(_)
async_networks_generator(r) ==
    IF r.g.exc # NoExc \/ r.g.next > Len(r.g.root_ids) THEN r
    ELSE async_networks_generator(AsyncNetworksGeneratorPass(r))

\* get_composed_network(root_ids): the list comprehension consumes
\* networks_generator(composed_query=True, ...); self._graph is returned
get_composed_network(s, root_ids) ==
    networks_generator(
        [s |-> s, g |-> NewGenerator("networks_generator", root_ids, TRUE)])

\* async_get_composed_network(root_ids)
async_get_composed_network(s, root_ids) ==
    async_networks_generator(
        [s |-> s,
         g |-> NewGenerator("async_networks_generator", root_ids, TRUE)])

---------------------------------------------------------------------------
(* The specifications: a client is constructed and its public methods are  *)
(* called.                                                                 *)

\* the values __init__ is given for branches: type(branches) and its value
BranchesArgs ==
    [type : {"int"}, value : -1..MaxBranches] \cup
    [type : {"str", "float", "bool"}, value : {1}]

\* the seed lists handed to the generators and the composed calls
SeedLists == UNION {[1..n -> RootIds] : n \in 0..MaxSeeds}

NotConstructed == [status |-> "no", branches |-> None, exc |-> NoExc]

\* no URL is being queried
NoResource == [kind |-> "none", total |-> 0]

\* the function get_company_network is not called
NotCrawled == [done |-> FALSE]

\* no get_network call is followed statement by statement
NotCrawling ==
    [pc |-> "idle", arg |-> <<>>, stack |-> <<>>, exc |-> NoExc, hops |-> {},
     expansions |-> 0]

\* stringify_company_id is not called by itself
NotGiven == [type |-> "none", n |-> 0, s |-> <<>>]

\* no client is constructed and nothing is called; the registry is one of
\* registries
StartOn(registries) ==
    /\ registry \in registries
    /\ constructed = NotConstructed
    /\ branches = 0
    /\ include_significant_controllers = FALSE
    /\ include_officers = FALSE
    /\ include_edge_data = FALSE
    /\ enforce_missing_ties = FALSE
    /\ exclude_non_active_companies = FALSE
    /\ exclude_resigned_board_members = FALSE
    /\ exclude_ceased_controllers = FALSE
    /\ compose_queried_networks = FALSE
    /\ _reset_cache = FALSE
    /\ _root_id = None
    /\ _graph = 0
    /\ _officer_appointments_cache = <<>>
    /\ _runs = <<>>
    /\ _query_start = None
    /\ _query_end = None
    /\ heap = <<>>
    /\ clock = 10
    /\ requests = <<>>
    /\ calls = <<>>
    /\ generator = NoGenerator
    /\ resource = NoResource
    /\ frames = <<>>
    /\ sent = <<>>
    /\ returns = <<>>
    /\ given = NotGiven
    /\ normalised = <<>>
    /\ filtered = NotFiltered
    /\ crawled = NotCrawled
    /\ crawling = NotCrawling
    /\ executed = 0
    /\ written = NotWritten
    /\ graph_file = None
    /\ read = NotRead
    /\ organisation_sequence = NoSequence
    /\ sequence_calls = <<>>
    /\ iterating = NotIterating
    /\ handlers = 1

Init == StartOn(Registries)

\* the same on a registry that may answer 403 or fail every retry
InitRefusing == StartOn(RegistriesRefusing)

\* the variables take the fields of the state a method leaves
Commit(s) ==
    /\ branches' = s.branches
    /\ include_significant_controllers' = s.include_significant_controllers
    /\ include_officers' = s.include_officers
    /\ include_edge_data' = s.include_edge_data
    /\ enforce_missing_ties' = s.enforce_missing_ties
    /\ exclude_non_active_companies' = s.exclude_non_active_companies
    /\ exclude_resigned_board_members' = s.exclude_resigned_board_members
    /\ exclude_ceased_controllers' = s.exclude_ceased_controllers
    /\ compose_queried_networks' = s.compose_queried_networks
    /\ _reset_cache' = s._reset_cache
    /\ _root_id' = s._root_id
    /\ _graph' = s._graph
    /\ _officer_appointments_cache' = s._officer_appointments_cache
    /\ _runs' = s._runs
    /\ _query_start' = s._query_start
    /\ _query_end' = s._query_end
    /\ heap' = s.heap
    /\ clock' = s.clock
    /\ requests' = s.requests

\* __init__ that tests only the type of branches
ClientInit_AnyInt(s, b, isc, io, ied, emt, enac, erbm, ecc, rc, cqn) ==
    IF b.type = "int"
    THEN [s EXCEPT !.branches = b.value, !.heap = Append(@, Graph),
                   !._graph = Len(s.heap) + 1]
    ELSE Raise(s, "NegativeIntBranchException")

\* CompanyNetworkClient.__init__: the state it leaves, or the exception
ClientInit(s, b, isc, io, ied, emt, enac, erbm, ecc, rc, cqn) ==
    IF b.type = "int" /\ b.value >= 0
    THEN [s EXCEPT
            !.branches = b.value,
            !.include_significant_controllers = isc,
            !.include_officers = io,
            !.include_edge_data = ied,
            !.enforce_missing_ties = emt,
            !.exclude_non_active_companies = enac,
            !.exclude_resigned_board_members = erbm,
            !.exclude_ceased_controllers = ecc,
            !.compose_queried_networks = cqn,
            !._reset_cache = rc,
            !._root_id = None,
            !.heap = Append(@, Graph),
            !._graph = Len(s.heap) + 1,
            !._officer_appointments_cache = <<>>,
            !._runs = <<>>]
    ELSE Raise(s, "NegativeIntBranchException")

Constructed(s, b) ==
    /\ constructed' = [status |-> IF s.exc = NoExc THEN "yes" ELSE "raised",
                       branches |-> Some(b), exc |-> s.exc]
    /\ Commit(s)

\* CompanyNetworkClient(branches=..., ...)
Construct ==
    /\ constructed.status = "no"
    /\ \E b \in BranchesArgs :
       \E isc, io, emt, enac, erbm, ecc, rc, cqn \in BOOLEAN :
           Constructed(ClientInit(Self, b, isc, io, FALSE, emt, enac, erbm,
                                  ecc, rc, cqn), b)
    /\ UNCHANGED <<registry, calls, generator, transport, normaliser, library>>

\* how a call ended: the exception it raised or the Graph object it
\* returned, the value of the client's graph and the number of requests sent
\* at that moment, the values of branch_iterator _get_network was called
\* with, and the reset_cache the call was made under
CallRecord(op, arg, s) ==
    [op |-> op, arg |-> arg, exc |-> s.exc,
     ret |-> IF s.exc = NoExc THEN Some(s._graph) ELSE None,
     graph |-> TheGraph(s), sent |-> Len(s.requests), hops |-> s.hops,
     reset_cache |-> s._reset_cache]

Returned(s, op, arg) ==
    /\ Commit(s)
    /\ calls' = Append(calls, CallRecord(op, arg, s))

\* a call of get_network(root_id) by the client's user
GetNetwork ==
    /\ constructed.status = "yes"
    /\ generator.kind = ""
    /\ Len(calls) < MaxCalls
    /\ \E root_id \in RootIds :
          Returned(get_network(Self, root_id), "get_network", root_id)
    /\ UNCHANGED <<registry, constructed, generator, transport, normaliser, library>>

\* the generator can be resumed: a seed is left and no exception ended it
Resumable(g) == g.exc = NoExc /\ g.next <= Len(g.root_ids)

\* client.reset_cache = value, by the client's user: before a call, between
\* two calls or while a generator is suspended; it is taken while a call
\* or a pass that reads the value can still follow
SetResetCache ==
    /\ constructed.status = "yes"
    /\ Len(calls) < MaxCalls
    /\ generator.kind # "" => Resumable(generator)
    /\ crawling.pc # "running"
    /\ \E value \in BOOLEAN : _reset_cache' = value
    /\ UNCHANGED <<registry, constructed, branches,
                   include_significant_controllers, include_officers,
                   include_edge_data, enforce_missing_ties,
                   exclude_non_active_companies,
                   exclude_resigned_board_members, exclude_ceased_controllers,
                   compose_queried_networks, _root_id, _graph,
                   _officer_appointments_cache, _runs, _query_start,
                   _query_end, heap, clock, requests, calls, generator,
                   transport, normaliser, library>>

Next == Construct \/ GetNetwork \/ SetResetCache

Spec == Init /\ [][Next]_vars

\* the client's calls on a registry that may refuse
SpecRefusing == InitRefusing /\ [][Next]_vars

\* a call of networks_generator(root_ids) on a new client
NetworksGenerator ==
    /\ constructed.status = "yes"
    /\ generator.kind = ""
    /\ calls = <<>>
    /\ \E root_ids \in SeedLists :
          generator' = NewGenerator("networks_generator", root_ids, FALSE)
    /\ UNCHANGED <<transport, normaliser, library, registry, constructed, branches,
                   include_significant_controllers, include_officers,
                   include_edge_data, enforce_missing_ties,
                   exclude_non_active_companies,
                   exclude_resigned_board_members, exclude_ceased_controllers,
                   compose_queried_networks, _reset_cache, _root_id, _graph,
                   _officer_appointments_cache, _runs, _query_start,
                   _query_end, heap, clock, requests, calls>>

\* a call of async_networks_generator(root_ids) on a new client
AsyncNetworksGenerator ==
    /\ constructed.status = "yes"
    /\ generator.kind = ""
    /\ calls = <<>>
    /\ \E root_ids \in SeedLists :
          generator' = NewGenerator("async_networks_generator", root_ids, FALSE)
    /\ UNCHANGED <<transport, normaliser, library, registry, constructed, branches,
                   include_significant_controllers, include_officers,
                   include_edge_data, enforce_missing_ties,
                   exclude_non_active_companies,
                   exclude_resigned_board_members, exclude_ceased_controllers,
                   compose_queried_networks, _reset_cache, _root_id, _graph,
                   _officer_appointments_cache, _runs, _query_start,
                   _query_end, heap, clock, requests, calls>>

Resumed(r) ==
    /\ Commit(r.s)
    /\ generator' = r.g

\* next(generator) on a networks_generator with a seed left
GeneratorNext ==
    /\ generator.kind = "networks_generator"
    /\ ~ generator.composed_query
    /\ Resumable(generator)
    /\ Resumed(NetworksGeneratorPass([s |-> Self, g |-> generator]))
    /\ UNCHANGED <<registry, constructed, calls, transport, normaliser, library>>

\* anext(generator) on an async_networks_generator with a seed left
AsyncGeneratorNext ==
    /\ generator.kind = "async_networks_generator"
    /\ ~ generator.composed_query
    /\ Resumable(generator)
    /\ Resumed(AsyncNetworksGeneratorPass([s |-> Self, g |-> generator]))
    /\ UNCHANGED <<registry, constructed, calls, transport, normaliser, library>>

Composed(r, op, arg) ==
    /\ Commit(r.s)
    /\ generator' = r.g
    /\ calls' = Append(calls, CallRecord(op, arg, r.s))

\* a call of get_composed_network(root_ids) on a new client
GetComposedNetwork ==
    /\ constructed.status = "yes"
    /\ generator.kind = ""
    /\ calls = <<>>
    /\ \E root_ids \in SeedLists :
          Composed(get_composed_network(Self, root_ids),
                   "get_composed_network", root_ids)
    /\ UNCHANGED <<registry, constructed, transport, normaliser, library>>

\* a call of async_get_composed_network(root_ids) on a new client
AsyncGetComposedNetwork ==
    /\ constructed.status = "yes"
    /\ generator.kind = ""
    /\ calls = <<>>
    /\ \E root_ids \in SeedLists :
          Composed(async_get_composed_network(Self, root_ids),
                   "async_get_composed_network", root_ids)
    /\ UNCHANGED <<registry, constructed, transport, normaliser, library>>

NextGenerators ==
    \/ Construct
    \/ NetworksGenerator
    \/ AsyncNetworksGenerator
    \/ GeneratorNext
    \/ AsyncGeneratorNext
    \/ GetComposedNetwork
    \/ AsyncGetComposedNetwork
    \/ SetResetCache

SpecGenerators == Init /\ [][NextGenerators]_vars

---------------------------------------------------------------------------
(* companies_house_query at the HTTP level: every requests.get, the status *)
(* code of every response, every time.sleep, and the follow-up queries of  *)
(* a paginated listing.  A call in progress is a frame; the follow-up      *)
(* queries of _expand_query_for_pagination are calls of their own, made    *)
(* while the paginated call waits.                                         *)

\* the largest max_trials a query is called with
MaxTrials == 4
\* the most responses with a retried status the registry gives to one query
MaxFailures == 4

\* COMPANIES_HOUSE_MAX_OFFICER_PAGINATION
COMPANIES_HOUSE_MAX_OFFICER_PAGINATION == 50
\* the default of the max_trials parameter
max_trials_default == 6

\* the status codes the registry answers with; 429 stands for the codes
\* companies_house_query has no branch for
StatusCodes == {200, 401, 403, 404, 429, 500, 502}

\* the items_per_page values a query is called with
PageSizes == {30, 50, 60}

\* what the queried URL serves: a profile (a dict without total_results) or
\* a listing of total items
Resources ==
    {[kind |-> "profile", total |-> 0]} \cup
    [kind : {"listing"}, total : {20, 45, 70, 130}]

Min(a, b) == IF a < b THEN a ELSE b
Max(a, b) == IF a > b THEN a ELSE b

\* an "items" entry: a list, null, or no such key
ItemsList(v) == [st |-> "list", v |-> v]
ItemsNull == [st |-> "null", v |-> <<>>]
ItemsMissing == [st |-> "missing", v |-> <<>>]

\* the params of a request: items_per_page, and start_index where it is set
Params(items_per_page, start_index) ==
    [items_per_page |-> items_per_page, start_index |-> start_index]

\* the items from, from + 1, ..., to - 1 of a listing, named by their index
ItemsBetween(from, to) == [k \in 1..(to - from) |-> from + k - 1]

\* response.json() of a 200 response: the page of the listing that params
\* asks for (its items null when the page is malformed), or the profile
ResponseJson(res, params, malformed) ==
    LET start == IF params.start_index = None THEN 0
                 ELSE params.start_index[1]
    IN  IF res.kind = "profile"
        THEN [st |-> "ok", items |-> ItemsMissing, total_results |-> None,
              items_per_page |-> None, items_per_query_list |-> None]
        ELSE [st |-> "ok",
              items |-> IF malformed THEN ItemsNull
                        ELSE ItemsList(ItemsBetween(
                                 start,
                                 Min(start + params.items_per_page, res.total))),
              total_results |-> Some(res.total),
              items_per_page |-> Some(params.items_per_page),
              items_per_query_list |-> None]

\* a call of companies_house_query that has not sent anything yet
NewFrame(params, max_trials, pagination) ==
    [params |-> params, max_trials |-> max_trials, pagination |-> pagination,
     trials |-> max_trials, pc |-> "get", attempts |-> <<>>,
     paginated_responses |-> <<>>, per_page |-> 0, remaining_queries |-> 0,
     i |-> 0, exc |-> NoExc, v |-> NotFound]

\* the call ends: it raises exc or returns v
EndCall(f, exc, v) == [f EXCEPT !.pc = "end", !.exc = exc, !.v = v]

\* the attempt of the loop that got status, and the time.sleep calls made
\* before the next one
Attempted(f, status, slept) ==
    [f EXCEPT !.attempts = Append(@, [status |-> status, slept |-> slept])]

\* _join_pagination_queries from queries[i] on: a None page is passed over;
\* len() of a null "items" raises TypeError, and the warning of the except
\* clause reads joined_dict["links"], a key joined_dict never has
RECURSIVE JoinFrom(_, _, _)
JoinFrom(queries, i, joined_dict) ==
    IF i > Len(queries) THEN [exc |-> NoExc, v |-> joined_dict]
    ELSE IF queries[i].st # "ok" THEN JoinFrom(queries, i + 1, joined_dict)
    ELSE IF queries[i].items.st # "list"
    THEN [exc |-> "KeyError", v |-> NotFound]
    ELSE JoinFrom(queries, i + 1,
             [joined_dict EXCEPT
                 !.items_per_query_list[1] = Append(@, Len(queries[i].items.v)),
                 !.items.v = @ \o queries[i].items.v])

\* _join_pagination_queries(queries): [exc, v]
_join_pagination_queries(queries) ==
    JoinFrom(queries, 1,
             [st |-> "ok", items |-> ItemsList(<<>>), total_results |-> None,
              items_per_page |-> None, items_per_query_list |-> Some(<<>>)])

\* ceil(a / b) for a > 0
ceil(a, b) == (a + b - 1) \div b

\* _expand_query_for_pagination up to its for loop: the first page is
\* yielded, and the follow-up queries are planned when the page reports more
\* results than it holds
_expand_query_for_pagination(f, response_dict) ==
    IF /\ response_dict.total_results # None
       /\ response_dict.items_per_page # None
       /\ response_dict.total_results[1] > response_dict.items_per_page[1]
    THEN [f EXCEPT
            !.pc = "pages",
            !.paginated_responses = <<response_dict>>,
            !.per_page = Max(response_dict.items_per_page[1],
                             COMPANIES_HOUSE_MAX_OFFICER_PAGINATION),
            !.remaining_queries =
                ceil(response_dict.total_results[1]
                         - response_dict.items_per_page[1],
                     COMPANIES_HOUSE_MAX_OFFICER_PAGINATION),
            !.i = 0]
    ELSE EndCall([f EXCEPT !.paginated_responses = <<response_dict>>],
                 NoExc, response_dict)

\* the params of the i-th follow-up query, i counted from 0
FollowUpParams(f) == Params(f.per_page, Some((f.i + 1) * f.per_page))

\* the end of a paginated call: the pages are joined when there are several
ReturnPages(f) ==
    IF Len(f.paginated_responses) > 1
    THEN EndCall(f, _join_pagination_queries(f.paginated_responses).exc,
                 _join_pagination_queries(f.paginated_responses).v)
    ELSE EndCall(f, NoExc, f.paginated_responses[1])

\* a query that takes only 403 for a permission error
IsPermissionStatus_Only403(status) == status = 403

\* a status that ends the call with CompaniesHousePermissionError
IsPermissionStatus(status) == status \in {401, 403}

\* a query that gives up on 404 only after it has retried, as on 500
ReturnsNone_AfterRetries(status, trials, max_trials) ==
    status \in {404, 500} /\ trials < max_trials - 1

\* whether the call returns None for a status: on 404, and on 500 once
\* trials has fallen below max_trials - 1
ReturnsNone(status, trials, max_trials) ==
    \/ status = 404
    \/ status = 500 /\ trials < max_trials - 1

\* the time.sleep calls made before the next attempt
Sleeps(status) == IF status = 502 THEN 2 ELSE 1

\* a loop that ends by returning None
FailedTrials_ReturnNone(f) == EndCall(f, NoExc, NotFound)

\* the statement after the loop: raise Exception("Failed ... attempt(s)
\* querying ...")
FailedTrials(f) == EndCall(f, "Exception", NotFound)

\* one pass of the while loop for a response of status
WhileTrials(f, status, response_dict) ==
    IF status = 200
    THEN IF f.pagination
         THEN _expand_query_for_pagination(Attempted(f, status, 0),
                                           response_dict)
         ELSE EndCall(Attempted(f, status, 0), NoExc, response_dict)
    ELSE IF IsPermissionStatus(status)
    THEN EndCall(Attempted(f, status, 0), "CompaniesHousePermissionError",
                 NotFound)
    ELSE IF ReturnsNone(status, f.trials, f.max_trials)
    THEN EndCall(Attempted(f, status, 0), NoExc, NotFound)
    ELSE [Attempted(f, status, Sleeps(status)) EXCEPT !.trials = @ - 1]

\* a request sent: its params, and the status of the response where the
\* call reads it, and whether the page of the response is malformed
Request(params, status, malformed) ==
    [params |-> params, status |-> status, malformed |-> malformed]

\* the call in progress that is running: the innermost one
Top == frames[Len(frames)]

\* the responses with a retried status that the calls of fs have got
RECURSIVE RetriedIn(_)
RetriedIn(fs) ==
    IF fs = <<>> THEN 0
    ELSE Cardinality({k \in 1..Len(fs[1].attempts) :
                         fs[1].attempts[k].slept > 0})
         + RetriedIn(Tail(fs))

\* the variables of the client, which a query by itself leaves alone
client == <<registry, constructed, branches, include_significant_controllers,
            include_officers, include_edge_data, enforce_missing_ties,
            exclude_non_active_companies, exclude_resigned_board_members,
            exclude_ceased_controllers, compose_queried_networks,
            _reset_cache, _root_id, _graph, _officer_appointments_cache,
            _runs, _query_start, _query_end, heap, clock, requests, calls,
            generator>>

\* no client is constructed; one URL of the registry is about to be queried
InitQuery ==
    /\ registry = RegistryInterlock
    /\ constructed = NotConstructed
    /\ branches = 0
    /\ include_significant_controllers = FALSE
    /\ include_officers = FALSE
    /\ include_edge_data = FALSE
    /\ enforce_missing_ties = FALSE
    /\ exclude_non_active_companies = FALSE
    /\ exclude_resigned_board_members = FALSE
    /\ exclude_ceased_controllers = FALSE
    /\ compose_queried_networks = FALSE
    /\ _reset_cache = FALSE
    /\ _root_id = None
    /\ _graph = 0
    /\ _officer_appointments_cache = <<>>
    /\ _runs = <<>>
    /\ _query_start = None
    /\ _query_end = None
    /\ heap = <<>>
    /\ clock = 10
    /\ requests = <<>>
    /\ calls = <<>>
    /\ generator = NoGenerator
    /\ resource \in Resources
    /\ frames = <<>>
    /\ sent = <<>>
    /\ returns = <<>>
    /\ given = NotGiven
    /\ normalised = <<>>
    /\ filtered = NotFiltered
    /\ crawled = NotCrawled
    /\ crawling = NotCrawling
    /\ executed = 0
    /\ written = NotWritten
    /\ graph_file = None
    /\ read = NotRead
    /\ organisation_sequence = NoSequence
    /\ sequence_calls = <<>>
    /\ iterating = NotIterating
    /\ handlers = 1

\* the top call goes on as f, or ends as f: it is recorded, and the
\* paginated call that made it takes the page it returns or ends with the
\* exception it raises
Proceed(f) ==
    IF f.pc # "end"
    THEN /\ frames' = [frames EXCEPT ![Len(frames)] = f]
         /\ returns' = returns
    ELSE IF Len(frames) = 1
    THEN /\ frames' = <<>>
         /\ returns' = Append(returns, f)
    ELSE IF f.exc # NoExc
    THEN /\ frames' = <<>>
         /\ returns' = returns \o <<f, EndCall(frames[1], f.exc, NotFound)>>
    ELSE /\ frames' = <<[frames[1] EXCEPT
                            !.paginated_responses = Append(@, f.v),
                            !.i = @ + 1]>>
         /\ returns' = Append(returns, f)

\* companies_house_query(query, max_trials=..., items_per_page=...,
\* pagination=...) is called: params = params or {items_per_page_keyword:
\* items_per_page}
Query ==
    /\ frames = <<>> /\ returns = <<>>
    /\ \E max_trials \in 1..MaxTrials, items_per_page \in PageSizes,
          pagination \in BOOLEAN :
          frames' = <<NewFrame(Params(items_per_page, None), max_trials,
                               pagination)>>
    /\ UNCHANGED <<client, normaliser, library, resource, sent, returns>>

\* the requests.get before the loop: its response is not looked at
RequestsGet ==
    /\ frames # <<>> /\ Top.pc = "get"
    /\ \E status \in StatusCodes :
          /\ sent' = Append(sent, Request(Top.params, None, FALSE))
          /\ Proceed([Top EXCEPT !.pc = "while"])
    /\ UNCHANGED <<client, normaliser, library, resource>>

\* one pass of the while loop: requests.get, and the branch of the status
Attempt ==
    /\ frames # <<>> /\ Top.pc = "while" /\ Top.trials > 0
    /\ \E status \in StatusCodes, malformed \in BOOLEAN :
          /\ malformed => status = 200 /\ resource.kind = "listing"
          /\ status \in {429, 500, 502} =>
                 RetriedIn(frames \o returns) < MaxFailures
          /\ sent' = Append(sent, Request(Top.params, Some(status), malformed))
          /\ Proceed(WhileTrials(Top, status,
                                 ResponseJson(resource, Top.params, malformed)))
    /\ UNCHANGED <<client, normaliser, library, resource>>

\* the loop has used up its trials
Failed ==
    /\ frames # <<>> /\ Top.pc = "while" /\ Top.trials = 0
    /\ Proceed(FailedTrials(Top))
    /\ UNCHANGED <<client, normaliser, library, resource, sent>>

\* the for loop of _expand_query_for_pagination: the next follow-up query
\* is called, with pagination=False and its other parameters at their defaults
FollowUp ==
    /\ frames # <<>> /\ Top.pc = "pages" /\ Top.i < Top.remaining_queries
    /\ frames' = Append(frames, NewFrame(FollowUpParams(Top),
                                         max_trials_default, FALSE))
    /\ UNCHANGED <<client, normaliser, library, resource, sent, returns>>

\* the generator is exhausted: the paginated call returns its pages
Paginated ==
    /\ frames # <<>> /\ Top.pc = "pages" /\ Top.i = Top.remaining_queries
    /\ Proceed(ReturnPages(Top))
    /\ UNCHANGED <<client, normaliser, library, resource, sent>>

NextQuery ==
    \/ Query
    \/ RequestsGet
    \/ Attempt
    \/ Failed
    \/ FollowUp
    \/ Paginated

SpecQuery == InitQuery /\ [][NextQuery]_vars

---------------------------------------------------------------------------
(* stringify_company_id by itself: it is given one value, an int or a      *)
(* str, and then its own result.                                           *)

\* the longest str given
MaxLen == 9
\* the most times stringify_company_id is applied, to a value and then to
\* its own results
MaxApplications == 2

\* the characters of the str given
Chars == {"0", "1", "C"}

\* the str of Chars of length n at most
RECURSIVE StrsUpTo(_)
StrsUpTo(n) ==
    IF n = 0 THEN {<<>>}
    ELSE LET shorter == StrsUpTo(n - 1)
         IN  shorter \cup
             {Append(s, c) : s \in {x \in shorter : Len(x) = n - 1}, c \in Chars}

\* the company numbers of the tests of stringify_company_id and of the
\* docstrings
TestStrs ==
    {<<"8", "7", "7", "9", "8", "7">>,
     <<"1", "0", "5", "4", "7", "5", "8", "1">>,
     <<"C", "E", "0", "1", "0", "1", "3", "5">>}

GivenStrs == StrsUpTo(MaxLen) \cup TestStrs

\* the int a str of digits is the decimal form of
RECURSIVE ParseInt(_)
ParseInt(s) ==
    IF s = <<>> THEN 0
    ELSE 10 * ParseInt(SubSeq(s, 1, Len(s) - 1))
         + (CHOOSE d \in 0..9 : DigitChars[d + 1] = s[Len(s)])

\* the int given: the ones a given str of digits stands for, and their
\* negatives
GivenInts ==
    LET ints == {ParseInt(s) : s \in {x \in GivenStrs : isdigit(x)}}
    IN  ints \cup {0 - n : n \in ints}

Given == {PyStr(s) : s \in GivenStrs} \cup {PyInt(n) : n \in GivenInts}

\* no client is constructed and no URL queried; stringify_company_id is
\* about to be called with a value
InitStringify ==
    /\ registry = RegistryInterlock
    /\ constructed = NotConstructed
    /\ branches = 0
    /\ include_significant_controllers = FALSE
    /\ include_officers = FALSE
    /\ include_edge_data = FALSE
    /\ enforce_missing_ties = FALSE
    /\ exclude_non_active_companies = FALSE
    /\ exclude_resigned_board_members = FALSE
    /\ exclude_ceased_controllers = FALSE
    /\ compose_queried_networks = FALSE
    /\ _reset_cache = FALSE
    /\ _root_id = None
    /\ _graph = 0
    /\ _officer_appointments_cache = <<>>
    /\ _runs = <<>>
    /\ _query_start = None
    /\ _query_end = None
    /\ heap = <<>>
    /\ clock = 10
    /\ requests = <<>>
    /\ calls = <<>>
    /\ generator = NoGenerator
    /\ resource = NoResource
    /\ frames = <<>>
    /\ sent = <<>>
    /\ returns = <<>>
    /\ given \in Given
    /\ normalised = <<>>
    /\ filtered = NotFiltered
    /\ crawled = NotCrawled
    /\ crawling = NotCrawling
    /\ executed = 0
    /\ written = NotWritten
    /\ graph_file = None
    /\ read = NotRead
    /\ organisation_sequence = NoSequence
    /\ sequence_calls = <<>>
    /\ iterating = NotIterating
    /\ handlers = 1

\* stringify_company_id(given)
Stringify ==
    /\ normalised = <<>>
    /\ normalised' = <<StringifyCompanyId(given)>>
    /\ UNCHANGED <<client, transport, library, given>>

\* stringify_company_id of what stringify_company_id returned last
StringifyAgain ==
    /\ normalised # <<>> /\ Len(normalised) < MaxApplications
    /\ normalised' =
          Append(normalised,
                 StringifyCompanyId(PyStr(normalised[Len(normalised)])))
    /\ UNCHANGED <<client, transport, library, given>>

NextStringify ==
    \/ Stringify
    \/ StringifyAgain

SpecStringify == InitStringify /\ [][NextStringify]_vars

---------------------------------------------------------------------------
(* write_json_graph and read_json_graph of src/ukboards/utils.py.  A       *)
(* Python value is a record with its type: a str, an int, None and a       *)
(* datetime have the fields n and s, a set has elems, a dict has items (a  *)
(* sequence of <<key, value>> pairs).  A datetime is an instant of the     *)
(* first ten seconds of 2020-01-01, n its microseconds.                    *)

PyNone == [type |-> "none", n |-> 0, s |-> <<>>]
PyDatetime(second, microsecond) ==
    [type |-> "datetime", n |-> second * 1000000 + microsecond, s |-> <<>>]
PySet(elems) == [type |-> "set", elems |-> elems]
PyDict(items) == [type |-> "dict", items |-> items]

\* str.startswith(prefix) and str.endswith(suffix)
startswith(s, prefix) ==
    Len(s) >= Len(prefix) /\ SubSeq(s, 1, Len(prefix)) = prefix
endswith(s, suffix) ==
    Len(s) >= Len(suffix)
    /\ SubSeq(s, Len(s) - Len(suffix) + 1, Len(s)) = suffix

\* str.lstrip(chars), str.rstrip(chars) and str.strip(chars)
RECURSIVE lstrip(_, _)
lstrip(s, chars) ==
    IF s # <<>> /\ s[1] \in chars THEN lstrip(Tail(s), chars) ELSE s
RECURSIVE rstrip(_, _)
rstrip(s, chars) ==
    IF s # <<>> /\ s[Len(s)] \in chars
    THEN rstrip(SubSeq(s, 1, Len(s) - 1), chars)
    ELSE s
strip(s, chars) == rstrip(lstrip(s, chars), chars)

\* str.split(", "): the parts of s between the occurrences of ", "; part
\* is the part being read
RECURSIVE split(_, _)
split(s, part) ==
    IF s = <<>> THEN <<part>>
    ELSE IF startswith(s, <<",", " ">>)
    THEN <<part>> \o split(SubSeq(s, 3, Len(s)), <<>>)
    ELSE split(Tail(s), Append(part, s[1]))

\* ", ".join(parts)
RECURSIVE join(_)
join(parts) ==
    IF parts = <<>> THEN <<>>
    ELSE IF Len(parts) = 1 THEN parts[1]
    ELSE parts[1] \o <<",", " ">> \o join(Tail(parts))

\* repr(v) of a str without quotes in it, an int or None
repr(v) ==
    CASE v.type = "str" -> <<"'">> \o v.s \o <<"'">>
      [] v.type = "int" -> DecimalOf(v.n)
      [] OTHER -> <<"N", "o", "n", "e">>

\* str(a set): "set()", or the repr of its elements between braces, in the
\* order the set iterates in, which is the order its elements have in order
StrSet(elems, order) ==
    IF elems = {} THEN <<"s", "e", "t", "(", ")">>
    ELSE <<"{">>
         \o join([i \in 1..Cardinality(elems) |->
                    repr(order[CHOOSE k \in 1..Len(order) :
                        /\ order[k] \in elems
                        /\ Cardinality({j \in 1..k : order[j] \in elems}) = i])])
         \o <<"}">>

\* the date and the hour and minute of every datetime of the model, as
\* str() writes them
DatePrefix ==
    <<"2", "0", "2", "0", "-", "0", "1", "-", "0", "1", " ",
      "0", "0", ":", "0", "0", ":", "0">>

\* str(a datetime): the microseconds are written when they are not 0
StrDatetime(v) ==
    DatePrefix \o DecimalOf(v.n \div 1000000)
    \o (IF v.n % 1000000 = 0 THEN <<>>
        ELSE <<".">> \o rjust(DecimalOf(v.n % 1000000), 6, "0"))

\* json.dump(..., default=str) followed by json.load without a hook: a
\* datetime and a set become the str that str() gives, the rest is kept
RECURSIVE Dumped(_, _)
Dumped(v, order) ==
    CASE v.type = "datetime" -> PyStr(StrDatetime(v))
      [] v.type = "set" -> PyStr(StrSet(v.elems, order))
      [] v.type = "dict" ->
            PyDict([i \in 1..Len(v.items) |->
                      <<v.items[i][1], Dumped(v.items[i][2], order)>>])
      [] OTHER -> v

\* a result: the exception raised, or the value
Ok(v) == [exc |-> NoExc, v |-> v]
Exc(e) == [exc |-> e, v |-> PyNone]

\* the first exception of a sequence of results, NoExc when there is none
FirstExc(results) ==
    IF \E i \in 1..Len(results) : results[i].exc # NoExc
    THEN results[CHOOSE i \in 1..Len(results) :
                    /\ results[i].exc # NoExc
                    /\ \A j \in 1..(i - 1) : results[j].exc = NoExc].exc
    ELSE NoExc

METADATA_DATETIME_KEYS == {"start_time", "end_time"}

\* datetime.strptime(v, JSON_DATE_FORMAT) for None and for the str that
\* str() gives for a datetime: TypeError unless v is a str, ValueError
\* unless a "." and one to six digits of a fraction of a second follow the
\* seconds
strptime(v) ==
    IF v.type # "str" THEN Exc("TypeError")
    ELSE IF /\ Len(v.s) \in (Len(DatePrefix) + 3)..(Len(DatePrefix) + 8)
            /\ startswith(v.s, DatePrefix)
            /\ v.s[Len(DatePrefix) + 1] \in Digits
            /\ v.s[Len(DatePrefix) + 2] = "."
            /\ isdigit(SubSeq(v.s, Len(DatePrefix) + 3, Len(v.s)))
    THEN Ok(PyDatetime(
             ParseInt(<<v.s[Len(DatePrefix) + 1]>>),
             ParseInt(SubSeq(SubSeq(v.s, Len(DatePrefix) + 3, Len(v.s))
                             \o <<"0", "0", "0", "0", "0">>, 1, 6))))
    ELSE Exc("ValueError")

\* one value of the set json_deserialise makes of a str in braces
SetValue(val) ==
    IF isdigit(val) /\ val[1] # "0" THEN PyInt(ParseInt(val))
    ELSE PyStr(strip(val, {"'"}))

\* what json_deserialise puts in place of the value v of the key k
Deserialised(k, v) ==
    IF k \in METADATA_DATETIME_KEYS THEN strptime(v)
    ELSE IF v.type # "str" THEN Ok(v)
    ELSE IF isdigit(v.s) /\ v.s[1] # "0" THEN Ok(PyInt(ParseInt(v.s)))
    ELSE IF startswith(v.s, <<"{">>) /\ endswith(v.s, <<"}">>)
    THEN LET values == split(strip(v.s, {"{", "}", "'"}), <<>>)
         IN  Ok(PySet({SetValue(values[i]) : i \in 1..Len(values)}))
    ELSE IF v.s = <<"s", "e", "t", "(", ")">> THEN Ok(PySet({}))
    ELSE Ok(v)

\* json_deserialise(json_dict): every value replaced in turn, up to the
\* first that raises
json_deserialise(items) ==
    LET each == [i \in 1..Len(items) |-> Deserialised(items[i][1], items[i][2])]
    IN  IF FirstExc(each) # NoExc THEN Exc(FirstExc(each))
        ELSE Ok(PyDict([i \in 1..Len(items) |-> <<items[i][1], each[i].v>>]))

\* json.load(..., object_hook=json_deserialise) of one value: the hook is
\* called on every dict, the inner ones first
RECURSIVE Loaded(_)
Loaded(v) ==
    IF v.type # "dict" THEN Ok(v)
    ELSE LET each == [i \in 1..Len(v.items) |-> Loaded(v.items[i][2])]
         IN  IF FirstExc(each) # NoExc THEN Exc(FirstExc(each))
             ELSE json_deserialise(
                      [i \in 1..Len(v.items) |-> <<v.items[i][1], each[i].v>>])

\* dict.update(items) on an insertion-ordered dict
RECURSIVE DictUpdate(_, _)
DictUpdate(d, items) ==
    IF items = <<>> THEN d
    ELSE DictUpdate(DictSet(d, items[1][1], items[1][2]), Tail(items))

\* the items of a dict without the keys
DictWithout(d, keys) == SelectSeq(d, LAMBDA item : item[1] \notin keys)

\* Graph.add_node(id, **attributes): a new node, or new attributes for the
\* node there is
AddNode(g, id, attributes) ==
    IF \E i \in 1..Len(g.nodes) : g.nodes[i][1] = id
    THEN [g EXCEPT !.nodes =
             [i \in 1..Len(g.nodes) |->
                 IF g.nodes[i][1] = id
                 THEN <<id, DictUpdate(g.nodes[i][2], attributes)>>
                 ELSE g.nodes[i]]]
    ELSE [g EXCEPT !.nodes = Append(g.nodes, <<id, attributes>>)]

\* Graph.add_edge(u, v, **attributes): the nodes are added when missing
AddEdge(g, u, v, attributes) ==
    LET with == AddNode(AddNode(g, u, <<>>), v, <<>>)
    IN  IF \E i \in 1..Len(with.edges) :
              {with.edges[i][1], with.edges[i][2]} = {u, v}
        THEN [with EXCEPT !.edges =
                 [i \in 1..Len(with.edges) |->
                     IF {with.edges[i][1], with.edges[i][2]} = {u, v}
                     THEN <<with.edges[i][1], with.edges[i][2],
                            DictUpdate(with.edges[i][3], attributes)>>
                     ELSE with.edges[i]]]
        ELSE [with EXCEPT !.edges = Append(with.edges, <<u, v, attributes>>)]

\* networkx.node_link_data(graph): a dict for every node, its attributes
\* and its id, and a dict for every edge, its attributes and its ends
node_link_data(graph) ==
    [nodes |-> [i \in 1..Len(graph.nodes) |->
                   PyDict(DictSet(graph.nodes[i][2], "id", graph.nodes[i][1]))],
     links |-> [i \in 1..Len(graph.edges) |->
                   PyDict(DictSet(DictSet(graph.edges[i][3],
                                          "source", graph.edges[i][1]),
                                  "target", graph.edges[i][2]))]]

\* networkx.node_link_graph(json_graph): the nodes, then the edges
RECURSIVE AddLinks(_, _)
AddLinks(g, links) ==
    IF links = <<>> THEN g
    ELSE AddLinks(AddEdge(g, DictGet(links[1].items, "source"),
                          DictGet(links[1].items, "target"),
                          DictWithout(links[1].items, {"source", "target"})),
                  Tail(links))
RECURSIVE AddNodes(_, _)
AddNodes(g, nodes) ==
    IF nodes = <<>> THEN g
    ELSE AddNodes(AddNode(g, DictGet(nodes[1].items, "id"),
                          DictWithout(nodes[1].items, {"id"})),
                  Tail(nodes))
node_link_graph(json_graph) ==
    AddLinks(AddNodes(EmptyGraph, json_graph.nodes), json_graph.links)

\* write_json_graph(graph, path, additional_data): the file written, as
\* json.load without a hook reads it.  The metadata is in it when
\* additional_data is neither None nor empty.
write_json_graph(graph, additional_data, order) ==
    LET json_graph == node_link_data(graph)
    IN  [nodes |-> [i \in 1..Len(json_graph.nodes) |->
                       Dumped(json_graph.nodes[i], order)],
         links |-> [i \in 1..Len(json_graph.links) |->
                       Dumped(json_graph.links[i], order)],
         metadata |-> IF additional_data # None /\ additional_data[1] # <<>>
                      THEN Some(Dumped(PyDict(additional_data[1]), order))
                      ELSE None]

\* read_json_graph(path, additional_data) of a file: the Graph, and with
\* additional_data the metadata as well, json_graph.get(additional_data_key)
read_json_graph(file, additional_data) ==
    IF ~ additional_data
    THEN [done |-> TRUE, additional_data |-> FALSE, exc |-> NoExc,
          graph |-> node_link_graph(file), metadata |-> None]
    ELSE LET nodes == [i \in 1..Len(file.nodes) |-> Loaded(file.nodes[i])]
             links == [i \in 1..Len(file.links) |-> Loaded(file.links[i])]
             metadata == IF file.metadata = None THEN <<>>
                         ELSE <<Loaded(file.metadata[1])>>
             exc == FirstExc(nodes \o links \o metadata)
         IN  IF exc # NoExc
             THEN [NotRead EXCEPT !.done = TRUE, !.additional_data = TRUE,
                                  !.exc = exc]
             ELSE [done |-> TRUE, additional_data |-> TRUE, exc |-> NoExc,
                   graph |-> node_link_graph(
                       [nodes |-> [i \in 1..Len(nodes) |-> nodes[i].v],
                        links |-> [i \in 1..Len(links) |-> links[i].v]]),
                   metadata |-> IF metadata = <<>> THEN None
                                ELSE Some(metadata[1].v.items)]

\* The graphs and the metadata written.  The node ids are the two of the
\* tests of utils ("034", "1a") and the company number of the docstrings.
GraphIds ==
    {PyStr(<<"0", "3", "4">>), PyStr(<<"1", "a">>),
     PyStr(<<"1", "0", "5", "4", "7", "5", "8", "1">>)}

\* the attributes of a node: its name, its side and its record, None or the
\* record with its number
NodeAttributes(id, has_data) ==
    <<<<"name", PyStr(<<"A">>)>>, <<"bipartite", PyInt(0)>>,
      <<"data", IF has_data THEN PyDict(<<<<"company_number", id>>>>)
                ELSE PyNone>>>>

\* a node, or two nodes and the edge between them
GraphsWritten ==
    {AddNode(EmptyGraph, id, NodeAttributes(id, has_data)) :
        id \in GraphIds, has_data \in BOOLEAN}
    \cup
    {AddEdge(AddNode(AddNode(EmptyGraph, e[1], NodeAttributes(e[1], has_data)),
                     e[2], NodeAttributes(e[2], has_data)),
             e[1], e[2], <<<<"data", PyNone>>>>) :
        e \in {x \in GraphIds \X GraphIds : x[1] # x[2]},
        has_data \in BOOLEAN}

\* the ids a run record holds in the sets of its kinds_ids_dict
SetElements ==
    {PyStr(<<"0", "3", "4">>),
     PyStr(<<"1", "0", "5", "4", "7", "5", "8", "1">>), PyInt(7)}

\* the orders a set can iterate in
SetOrders ==
    {order \in [1..Cardinality(SetElements) -> SetElements] :
        \A i, j \in 1..Cardinality(SetElements) :
            order[i] = order[j] => i = j}

\* the start times of a run record: None, a second on the dot, and a
\* second and five microseconds
StartTimes == {PyNone, PyDatetime(1, 0), PyDatetime(1, 5)}

\* the metadata of test_read_write_metadata
TestMetadata ==
    <<<<"some", PyInt(5)>>, <<"more", PyStr(<<"d", "a", "t", "a">>)>>>>

\* the metadata written: none, the metadata of the tests, and run records
MetadataWritten ==
    {None, Some(TestMetadata)}
    \cup
    {Some(<<<<"root_id", root_id>>, <<"start_time", start_time>>,
            <<"kinds_ids_dict", PyDict(<<<<"company", PySet(ids)>>>>)>>>>) :
        root_id \in {PyStr(<<"0", "3", "4">>),
                     PyStr(<<"1", "0", "5", "4", "7", "5", "8", "1">>)},
        start_time \in StartTimes,
        ids \in SUBSET SetElements}

\* no client is constructed; a graph and its metadata are about to be
\* written to a file that does not exist yet
InitJson ==
    /\ registry = RegistryInterlock
    /\ constructed = NotConstructed
    /\ branches = 0
    /\ include_significant_controllers = FALSE
    /\ include_officers = FALSE
    /\ include_edge_data = FALSE
    /\ enforce_missing_ties = FALSE
    /\ exclude_non_active_companies = FALSE
    /\ exclude_resigned_board_members = FALSE
    /\ exclude_ceased_controllers = FALSE
    /\ compose_queried_networks = FALSE
    /\ _reset_cache = FALSE
    /\ _root_id = None
    /\ _graph = 0
    /\ _officer_appointments_cache = <<>>
    /\ _runs = <<>>
    /\ _query_start = None
    /\ _query_end = None
    /\ heap = <<>>
    /\ clock = 10
    /\ requests = <<>>
    /\ calls = <<>>
    /\ generator = NoGenerator
    /\ resource = NoResource
    /\ frames = <<>>
    /\ sent = <<>>
    /\ returns = <<>>
    /\ given = NotGiven
    /\ normalised = <<>>
    /\ filtered = NotFiltered
    /\ crawled = NotCrawled
    /\ crawling = NotCrawling
    /\ executed = 0
    /\ written \in [graph : GraphsWritten, additional_data : MetadataWritten]
    /\ graph_file = None
    /\ read = NotRead
    /\ organisation_sequence = NoSequence
    /\ sequence_calls = <<>>
    /\ iterating = NotIterating
    /\ handlers = 1

\* write_json_graph(written.graph, path, written.additional_data)
WriteJsonGraph ==
    /\ graph_file = None
    /\ \E order \in SetOrders :
          graph_file' = Some(write_json_graph(written.graph,
                                              written.additional_data, order))
    /\ UNCHANGED <<client, transport, normaliser, filtered, crawled, crawling, executed, sequencer, written,
                   read>>

\* read_json_graph(path, additional_data) of the file written
ReadJsonGraph ==
    /\ graph_file # None
    /\ ~ read.done
    /\ \E additional_data \in BOOLEAN :
          read' = read_json_graph(graph_file[1], additional_data)
    /\ UNCHANGED <<client, transport, normaliser, filtered, crawled, crawling, executed, sequencer, written,
                   graph_file>>

NextJson ==
    \/ WriteJsonGraph
    \/ ReadJsonGraph

SpecJson == InitJson /\ [][NextJson]_vars

---------------------------------------------------------------------------
(* get_charity_network of src/uk_boards/charities.py.  The Charity         *)
(* Commission service is a record of what GetCharityByRegisteredCharity-   *)
(* Number replies for each number ("ok" a record, "none" an empty reply,   *)
(* "fault" a zeep Fault) and of the trustees GetCharityTrustees lists for  *)
(* each subsidiary of a charity.                                           *)

CHARITY_NETWORK_KINDS == <<"charity", "trustee">>

\* a record of a charity, and the replies without one
Charity(name, subsidiaries) ==
    [st |-> "ok", CharityName |-> name, SubsidiaryNumber |-> subsidiaries]
CharityFault == [st |-> "fault", CharityName |-> <<>>, SubsidiaryNumber |-> 0]
CharityEmpty == [st |-> "none", CharityName |-> <<>>, SubsidiaryNumber |-> 0]

\* a trustee of a list of trustees; RelatedCharitiesCount is the length of
\* RelatedCharities
Trustee(number, name, related) ==
    [TrusteeNumber |-> number, TrusteeName |-> name,
     RelatedCharities |-> related]
Related(number, name) == [CharityNumber |-> number, CharityName |-> name]

\* The service: charities 11 and 12 share trustee 101, and the names of
\* charity 11 and of trustee 102 come with a space; trustee 104 of
\* charity 15 is also a trustee of 13, whose fetch ends in a Fault, and of
\* 12; trustee 105 of charity 16 is also a trustee of 14, of which the
\* service has no record, and of 12.  Charity 12 has a subsidiary without
\* trustees.
Commission ==
    [charity |->
        (11 :> Charity(<<"A", " ">>, 0)) @@ (12 :> Charity(<<"B">>, 1)) @@
        (13 :> CharityFault) @@ (14 :> CharityEmpty) @@
        (15 :> Charity(<<"E">>, 0)) @@ (16 :> Charity(<<"F">>, 0)),
     trustees |->
        (<<11, 0>> :> <<Trustee(101, <<"T">>, <<Related(12, <<"B">>)>>),
                        Trustee(102, <<" ", "U">>, <<>>)>>) @@
        (<<12, 0>> :> <<Trustee(101, <<"T">>, <<Related(11, <<"A">>)>>),
                        Trustee(103, <<"V">>, <<>>)>>) @@
        (<<12, 1>> :> <<>>) @@
        (<<15, 0>> :> <<Trustee(104, <<"W">>, <<Related(13, <<"C">>),
                                                Related(12, <<"B">>)>>)>>) @@
        (<<16, 0>> :> <<Trustee(105, <<"X">>, <<Related(14, <<"D">>),
                                                Related(12, <<"Z">>)>>)>>)]

\* client.service.GetCharityByRegisteredCharityNumber
GetCharityByRegisteredCharityNumber(service, charity_number) ==
    IF charity_number \in DOMAIN service.charity
    THEN service.charity[charity_number]
    ELSE CharityEmpty

\* client.service.GetCharityTrustees
GetCharityTrustees(service, charity_number, subsidiary) ==
    IF <<charity_number, subsidiary>> \in DOMAIN service.trustees
    THEN service.trustees[<<charity_number, subsidiary>>]
    ELSE <<>>

\* the nodes of H that G has not, in H's order, after those of order
RECURSIVE ComposedOrder(_, _)
ComposedOrder(order, rest) ==
    IF rest = <<>> THEN order
    ELSE ComposedOrder(Ordered(order, Head(rest)), Tail(rest))

\* networkx.compose(G, H): the nodes and the edges of both; where both hold
\* a node or an edge, G's attributes are updated with H's
compose(G, H) ==
    [nodes |-> [n \in NodeIds(G) \cup NodeIds(H) |->
                   IF n \notin NodeIds(H) THEN G.nodes[n]
                   ELSE IF n \notin NodeIds(G) THEN H.nodes[n]
                   ELSE UpdateAttr(G.nodes[n], H.nodes[n])],
     edges |-> [e \in EdgeIds(G) \cup EdgeIds(H) |->
                   IF e \in EdgeIds(H) /\ (H.edges[e] # NoData
                                            \/ e \notin EdgeIds(G))
                   THEN H.edges[e] ELSE G.edges[e]],
     order |-> ComposedOrder(G.order, H.order)]

\* networkx.is_bipartite(G) for a Graph: its nodes can be coloured with two
\* colours, the two ends of every edge differently
is_bipartite(G) ==
    \E colour \in [NodeIds(G) -> {0, 1}] :
        \A e \in EdgeIds(G) :
            /\ Cardinality(e) = 2
            /\ \A u, v \in e : u # v => colour[u] # colour[v]

\* the characters str.strip() removes, of those the names are written with
Whitespace == {" "}

\* the attributes get_charity_network gives a node: name=....strip()
CharityNode(name, kind, bipartite) ==
    [keys |-> {"name", "bipartite", "kind", "data"},
     name |-> strip(name, Whitespace), kind |-> kind,
     bipartite |-> bipartite, data |-> [tag |-> kind]]

\* what get_charity_network does with the reply for its charity: it
\* returns None after a Fault, and for an empty reply when it was given no
\* test_name; with a test_name the empty reply is subscripted
FetchOutcome(charity_data, test_name) ==
    CASE charity_data.st = "fault" -> "return None"
      [] charity_data.st = "none" /\ (test_name = None \/ test_name[1] = <<>>)
            -> "return None"
      [] charity_data.st = "none" -> "TypeError"
      [] OTHER -> "crawl"

\* the state of one get_charity_network call: its graph g and the exception
\* being raised
RECURSIVE get_charity_network(_, _, _, _)
RECURSIVE RelatedCharitiesLoop(_, _, _, _, _)
RECURSIVE TrusteesLoop(_, _, _, _, _, _)
RECURSIVE SubsidiariesLoop(_, _, _, _, _)

\* the lines after the recursive call: the two assertions around
\* g = compose(g, subgraph), subgraph being what the call returned or raised
ComposeSubgraph(c, subgraph) ==
    IF subgraph.exc # NoExc THEN [c EXCEPT !.exc = subgraph.exc]
    ELSE IF subgraph.v = None THEN [c EXCEPT !.exc = "AttributeError"]
    ELSE IF ~ is_bipartite(subgraph.v[1])
    THEN [c EXCEPT !.exc = "AssertionError"]
    ELSE IF ~ is_bipartite(compose(c.g, subgraph.v[1]))
    THEN [g |-> compose(c.g, subgraph.v[1]), exc |-> "AssertionError"]
    ELSE [c EXCEPT !.g = compose(c.g, subgraph.v[1])]

\* for charity in trustee["RelatedCharities"], from the i-th on
RelatedCharitiesLoop(service, c, related, i, hops) ==
    IF c.exc # NoExc \/ i > Len(related) THEN c
    ELSE IF related[i].CharityNumber \in NodeIds(c.g)
    THEN RelatedCharitiesLoop(service, c, related, i + 1, hops)
    ELSE RelatedCharitiesLoop(
             service,
             ComposeSubgraph(c, get_charity_network(
                                    service, related[i].CharityNumber,
                                    hops - 1, Some(related[i].CharityName))),
             related, i + 1, hops)

\* the trustee's node and its edge to the charity
AddTrustee(c, charity_number, trustee) ==
    [c EXCEPT !.g =
        add_edge(add_node(c.g, trustee.TrusteeNumber,
                          CharityNode(trustee.TrusteeName,
                                      CHARITY_NETWORK_KINDS[2], 1)),
                 charity_number, trustee.TrusteeNumber, NoData)]

\* if branches and trustee["RelatedCharitiesCount"]: the related charities
RelatedCharitiesIf(service, c, trustee, hops) ==
    IF hops # 0 /\ Len(trustee.RelatedCharities) # 0
    THEN RelatedCharitiesLoop(service, c, trustee.RelatedCharities, 1, hops)
    ELSE c

\* for trustee in trustees, from the j-th on
TrusteesLoop(service, c, charity_number, trustees, j, hops) ==
    IF c.exc # NoExc \/ j > Len(trustees) THEN c
    ELSE TrusteesLoop(
             service,
             RelatedCharitiesIf(service,
                                AddTrustee(c, charity_number, trustees[j]),
                                trustees[j], hops),
             charity_number, trustees, j + 1, hops)

\* for subsidiary in range(charity_data["SubsidiaryNumber"] + 1), from
\* subsidiary on
SubsidiariesLoop(service, c, charity_number, subsidiary, hops) ==
    IF \/ c.exc # NoExc
       \/ subsidiary > GetCharityByRegisteredCharityNumber(
                           service, charity_number).SubsidiaryNumber
    THEN c
    ELSE SubsidiariesLoop(
             service,
             TrusteesLoop(service, c, charity_number,
                          GetCharityTrustees(service, charity_number, subsidiary),
                          1, hops),
             charity_number, subsidiary + 1, hops)

\* return g, unless an exception is being raised
ReturnGraph(c) ==
    IF c.exc # NoExc THEN [exc |-> c.exc, v |-> None]
    ELSE [exc |-> NoExc, v |-> Some(c.g)]

\* get_charity_network once the reply for its charity is there
CharityNetworkOf(service, charity_number, hops, charity_data, outcome) ==
    IF outcome = "return None" THEN [exc |-> NoExc, v |-> None]
    ELSE IF outcome # "crawl" THEN [exc |-> outcome, v |-> None]
    ELSE ReturnGraph(SubsidiariesLoop(
             service,
             [g |-> add_node(Graph, charity_number,
                             CharityNode(charity_data.CharityName,
                                         CHARITY_NETWORK_KINDS[1], 0)),
              exc |-> NoExc],
             charity_number, 0, hops))

\* get_charity_network(charity_number, branches, client, test_name), hops
\* being its branches: [exc, v], v the Graph returned or None
get_charity_network(service, charity_number, hops, test_name) ==
    CharityNetworkOf(
        service, charity_number, hops,
        GetCharityByRegisteredCharityNumber(service, charity_number),
        FetchOutcome(GetCharityByRegisteredCharityNumber(service, charity_number),
                     test_name))

---------------------------------------------------------------------------
(* networkx.ego_graph, on a Graph that was crawled and on one that was     *)
(* read from a file, whose nodes and edges are lists and whose ids are     *)
(* the values of the file.                                                 *)

\* the graph is one that was read from a file
IsRead(G) == "order" \notin DOMAIN G

\* the nodes of a graph in the order Graph.nodes iterates
NodeOrder(G) ==
    IF IsRead(G) THEN [i \in 1..Len(G.nodes) |-> G.nodes[i][1]] ELSE G.order

\* the nodes of a graph
GraphNodes(G) == {NodeOrder(G)[i] : i \in 1..Len(NodeOrder(G))}

\* v in G.adj[u]
Adjacent(G, u, v) ==
    IF IsRead(G)
    THEN \E i \in 1..Len(G.edges) : {G.edges[i][1], G.edges[i][2]} = {u, v}
    ELSE {u, v} \in EdgeIds(G)

\* the id of an organisation as a node of the graph: the graph that was
\* read holds the values of the file
NodeOfId(G, network_type, id) ==
    IF ~ IsRead(G) THEN id
    ELSE IF network_type = "charity" THEN PyInt(id) ELSE PyStr(id)

\* single_source_shortest_path_length(G, n, cutoff): the nodes that are at
\* most cutoff edges from the nodes of seen, for a cutoff of 0 or more
RECURSIVE Within(_, _, _)
Within(G, seen, cutoff) ==
    LET next == seen \cup {v \in GraphNodes(G) :
                             \E u \in seen : Adjacent(G, u, v)}
    IN  IF cutoff = 0 \/ next = seen THEN seen
        ELSE Within(G, next, cutoff - 1)

\* the orders in which a set of nodes can iterate
Orderings(nodes) ==
    {order \in [1..Cardinality(nodes) -> nodes] :
        \A i, j \in 1..Cardinality(nodes) : order[i] = order[j] => i = j}

\* the nodes of order that are among nodes, in their order
RECURSIVE Among(_, _)
Among(order, nodes) ==
    IF order = <<>> THEN <<>>
    ELSE (IF Head(order) \in nodes THEN <<Head(order)>> ELSE <<>>)
         \o Among(Tail(order), nodes)

\* the orders in which G.subgraph(nodes) iterates its nodes: the view
\* iterates the set of the nodes kept when that is less than half of the
\* nodes of G, and the nodes of G else
SubgraphOrders(G, nodes) ==
    IF 2 * Cardinality(nodes) < Len(NodeOrder(G)) THEN Orderings(nodes)
    ELSE {Among(NodeOrder(G), nodes)}

\* the edges of the read graph G at u whose other end is kept, added to H
\* from the i-th edge of G on, which is the order of G.adj[u]
RECURSIVE AddEdgesAt(_, _, _, _, _)
AddEdgesAt(H, G, u, nodes, i) ==
    IF i > Len(G.edges) THEN H
    ELSE AddEdgesAt(
             IF G.edges[i][1] = u /\ G.edges[i][2] \in nodes
             THEN AddEdge(H, u, G.edges[i][2], G.edges[i][3])
             ELSE IF G.edges[i][2] = u /\ G.edges[i][1] \in nodes
             THEN AddEdge(H, u, G.edges[i][1], G.edges[i][3])
             ELSE H,
             G, u, nodes, i + 1)

\* the edges of the read graph G among the nodes of order, added to H for
\* the k-th node of order on
RECURSIVE AddEdgesAmong(_, _, _, _)
AddEdgesAmong(H, G, order, k) ==
    IF k > Len(order) THEN H
    ELSE AddEdgesAmong(AddEdgesAt(H, G, order[k],
                                  {order[i] : i \in 1..Len(order)}, 1),
                       G, order, k + 1)

\* the attributes of node n of the read graph G
AttributesOf(G, n) ==
    G.nodes[CHOOSE i \in 1..Len(G.nodes) : G.nodes[i][1] = n][2]

\* G.subgraph(nodes).copy(), the view iterating the nodes in order: the
\* nodes with their attributes, then the edges between them with theirs
SubgraphCopy(G, order) ==
    IF IsRead(G)
    THEN AddEdgesAmong([nodes |-> [i \in 1..Len(order) |->
                                      <<order[i], AttributesOf(G, order[i])>>],
                        edges |-> <<>>],
                       G, order, 1)
    ELSE [nodes |-> [n \in {order[i] : i \in 1..Len(order)} |-> G.nodes[n]],
          edges |-> [e \in {x \in EdgeIds(G) :
                               x \subseteq {order[i] : i \in 1..Len(order)}} |->
                        G.edges[e]],
          order |-> order]

\* networkx.ego_graph(G, n, radius): [exc, v], v the graphs it can return,
\* which differ in the order of their nodes
ego_graph(G, n, radius) ==
    IF n \notin GraphNodes(G) THEN [exc |-> "NodeNotFound", v |-> {}]
    ELSE [exc |-> NoExc,
          v |-> {SubgraphCopy(G, order) :
                    order \in SubgraphOrders(G, Within(G, {n}, radius))}]

\* the id of a node that was read, as the Graph of a crawl holds it
IdRead(id) == IF id.type = "int" THEN id.n ELSE id.s

\* the kind of a node that was read: one of CHARITY_NETWORK_KINDS
KindRead(kind) ==
    IF kind = PyStr(<<"c", "h", "a", "r", "i", "t", "y">>)
    THEN CHARITY_NETWORK_KINDS[1]
    ELSE IF kind = PyStr(<<"t", "r", "u", "s", "t", "e", "e">>)
    THEN CHARITY_NETWORK_KINDS[2]
    ELSE ""

\* the attributes of a node that was read, as add_node is given them: the
\* keys, the name, the kind and the side; of data, that it was read
AttributesRead(items) ==
    [keys |-> {items[i][1] : i \in 1..Len(items)},
     name |-> IF DictHas(items, "name") /\ DictGet(items, "name").type = "str"
              THEN DictGet(items, "name").s ELSE <<>>,
     kind |-> IF DictHas(items, "kind") THEN KindRead(DictGet(items, "kind"))
              ELSE "",
     bipartite |-> IF DictHas(items, "bipartite")
                      /\ DictGet(items, "bipartite").type = "int"
                   THEN DictGet(items, "bipartite").n ELSE -1,
     is_person |-> FALSE, category |-> "", data |-> [tag |-> "read"]]

\* a network of charities that was read, as the Graph a composition adds
\* its nodes and its edges to: the order of the attributes of a node and
\* of the edges is not kept, and an edge of a network of charities holds
\* no data
GraphOfRead(G) ==
    IF ~ IsRead(G) THEN G
    ELSE [nodes |-> [n \in {IdRead(x) : x \in GraphNodes(G)} |->
                        UpdateAttr(BareNode,
                                   AttributesRead(AttributesOf(
                                       G, CHOOSE x \in GraphNodes(G) :
                                              IdRead(x) = n)))],
          edges |-> [e \in {{IdRead(G.edges[i][1]), IdRead(G.edges[i][2])} :
                               i \in 1..Len(G.edges)} |-> NoData],
          order |-> [i \in 1..Len(G.nodes) |-> IdRead(G.nodes[i][1])]]

---------------------------------------------------------------------------
(* OrganisationSequence of src/uk_boards/uk_boards.py.  q is the sequence: *)
(* its organisations, its parameters, its runs and its flags.  An          *)
(* organisation holds its ids and, once set, its networks: the charity     *)
(* network is a Graph, the company network the Graph object of the         *)
(* company client.  x is a call in progress: the sequence, the clock, the  *)
(* exception being raised, the charity crawls made (each with what         *)
(* get_charity_network returned or raised) and what the generator yielded. *)

\* CharityRunConfig(root_id=..., start_time=datetime.now(), success=None, ...)
CharityRunConfig(root_id, start_time, parameter_state) ==
    [root_id |-> root_id, kind |-> "charity",
     parameter_state |-> parameter_state,
     start_time |-> Some(start_time), end_time |-> None,
     connected_components_count |-> None, kinds_ids_dict |-> None,
     success |-> None, composed_runs |-> <<>>]

\* the condition under which _get_charity_networks_generator crawls an
\* organisation
CrawlsCharity(organisation) ==
    /\ ~ organisation._skip_charity
    /\ charity_id(organisation).v # None
    /\ charity_id(organisation).v[1] # 0
    /\ organisation.charity_network = None

\* if network: a Graph with a node
CrawlSucceeded(network) == network # None /\ GraphLen(network[1]) > 0

\* an else branch that leaves the run as it was appended
MarkFailure_Unmarked(run) == run

\* the else branch: success = False, connected_components_count = None
MarkFailure(run) ==
    [run EXCEPT !.success = Some(FALSE), !.connected_components_count = None]

\* the if branch: success, the components and the ids of each kind
MarkSuccess(run, network) ==
    [run EXCEPT !.success = Some(TRUE),
                !.connected_components_count =
                    Some(number_connected_components(network)),
                !.kinds_ids_dict =
                    get_kinds_ids_dict(network, CHARITY_NETWORK_KINDS).v]

\* a crawl made and what came of it
Crawl(root_id, outcome) == [charity_id |-> root_id, outcome |-> outcome]

\* the lines after the crawl of the i-th organisation: the run appended
\* before it is completed and the network set on the organisation; network
\* is what get_charity_network returned or raised
CompleteRun(x, i, root_id, network) ==
    IF network.exc # NoExc
    THEN [x EXCEPT !.clock = @ + 1, !.exc = network.exc,
                   !.crawls = Append(@, Crawl(root_id, network.exc))]
    ELSE IF ~ CrawlSucceeded(network.v)
    THEN [x EXCEPT !.q._charity_runs[Len(x.q._charity_runs)] =
                       MarkFailure([@ EXCEPT !.end_time = Some(x.clock + 1)]),
                   !.clock = @ + 2,
                   !.crawls = Append(@, Crawl(root_id, "None"))]
    ELSE IF get_kinds_ids_dict(network.v[1], CHARITY_NETWORK_KINDS).exc # NoExc
    THEN [x EXCEPT !.q._charity_runs[Len(x.q._charity_runs)] =
                       [@ EXCEPT !.end_time = Some(x.clock + 1),
                                 !.success = Some(TRUE),
                                 !.connected_components_count =
                                     Some(number_connected_components(
                                              network.v[1]))],
                   !.clock = @ + 2, !.exc = "KeyError",
                   !.crawls = Append(@, Crawl(root_id, "Graph"))]
    ELSE [x EXCEPT !.q._charity_runs[Len(x.q._charity_runs)] =
                       MarkSuccess([@ EXCEPT !.end_time = Some(x.clock + 1)],
                                   network.v[1]),
                   !.q.organisations[i].charity_network = network.v,
                   !.clock = @ + 2,
                   !.crawls = Append(@, Crawl(root_id, "Graph"))]

\* the body of the if statement of _get_charity_networks_generator for the
\* i-th organisation: the run is appended, the charity crawled, the run
\* completed
CrawlCharity(service, x, i) ==
    IF x.q.organisations[i].name = None  \* the log line reads organisation.name
    THEN [x EXCEPT !.exc = "AttributeError"]
    ELSE CompleteRun(
        [x EXCEPT !.q._charity_runs =
            Append(@, CharityRunConfig(charity_id(x.q.organisations[i]).v[1],
                                       x.clock, x.q.charity_client_params))],
        i, charity_id(x.q.organisations[i]).v[1],
        get_charity_network(service, charity_id(x.q.organisations[i]).v[1],
                            x.q.charity_client_params.branches, None))

\* if yield_attr: the i-th organisation's network is yielded if it has one
YieldCharityNetwork(x, i) ==
    IF x.exc # NoExc \/ x.q.organisations[i].charity_network = None THEN x
    ELSE [x EXCEPT !.yielded = Append(@, x.q.organisations[i].charity_network[1])]

\* one pass of the for loop of _get_charity_networks_generator(yield_attr=
\* True)
CharityNetworksPass(service, x, i) ==
    IF /\ ~ x.q.organisations[i]._skip_charity
       /\ charity_id(x.q.organisations[i]).exc # NoExc
    THEN [x EXCEPT !.exc = charity_id(x.q.organisations[i]).exc]
    ELSE YieldCharityNetwork(IF CrawlsCharity(x.q.organisations[i])
                             THEN CrawlCharity(service, x, i) ELSE x,
                             i)

\* _get_charity_networks_generator consumed from the i-th organisation on;
\* after the last one the networks are flagged as cached
RECURSIVE _get_charity_networks_generator(_, _, _)
_get_charity_networks_generator(service, x, i) ==
    IF x.exc # NoExc THEN x
    ELSE IF i > Len(x.q.organisations)
    THEN [x EXCEPT !.q._charity_networks_cached = TRUE]
    ELSE _get_charity_networks_generator(
             service, CharityNetworksPass(service, x, i), i + 1)

\* a call on the sequence begins: nothing raised, crawled or yielded yet
BeginCall(q, now) ==
    [q |-> q, clock |-> now, exc |-> NoExc, crawls |-> <<>>, yielded |-> <<>>]

\* get_charity_networks(reset): list(get_charity_networks_generator(reset))
get_charity_networks(service, q, now, reset) ==
    _get_charity_networks_generator(
        service,
        BeginCall(IF reset THEN [q EXCEPT !._charity_networks_cached = FALSE]
                  ELSE q, now),
        1)

\* y is a call on the sequence that uses the company client: the sequence
\* q and the client's state s, which holds the exception being raised.

\* the company_client property: the client is made from
\* company_client_params at the first use, with the defaults of __init__
company_client(y) ==
    IF y.q.has_company_client THEN y
    ELSE [q |-> [y.q EXCEPT !.has_company_client = TRUE],
          s |-> ClientInit(y.s,
                           [type |-> "int",
                            value |-> y.q.company_client_params.branches],
                           FALSE, TRUE, FALSE, FALSE, FALSE, FALSE, FALSE,
                           TRUE, FALSE)]

\* the ids of the active_company_ids property, in the organisations' order
RECURSIVE ActiveCompanyIds(_)
ActiveCompanyIds(organisations) ==
    IF organisations = <<>> THEN <<>>
    ELSE (IF /\ organisations[1].company_id # None
             /\ organisations[1].company_id[1] # <<>>
             /\ ~ organisations[1]._skip_company
          THEN <<organisations[1].company_id[1]>> ELSE <<>>)
         \o ActiveCompanyIds(Tail(organisations))

\* the condition under which _get_company_networks_generator crawls an
\* organisation
CrawlsCompany(q, organisation) ==
    /\ ~ organisation._skip_company
    /\ ~ q._company_networks_cached
    /\ organisation.company_id # None
    /\ organisation.company_id[1] # <<>>
    /\ organisation.company_network = None

\* the lines after get_network(organisation.company_id), s being the
\* client's state after it: its last run is appended to the sequence's and
\* its Graph object set on the i-th organisation
AppendCompanyRun(q, s, i) ==
    IF s.exc # NoExc THEN [q |-> q, s |-> s]
    ELSE IF s._runs = <<>> THEN [q |-> q, s |-> Raise(s, "IndexError")]
    ELSE [q |-> [q EXCEPT
                    !._company_runs = Append(@, s._runs[Len(s._runs)]),
                    !.organisations[i].company_network = Some(s._graph)],
          s |-> s]

\* the body of the if statement of _get_company_networks_generator for the
\* i-th organisation, the client being there
CrawlCompany(y, i) ==
    AppendCompanyRun(y.q, get_network(y.s, y.q.organisations[i].company_id[1]),
                     i)

\* the body of the if statement from its log line, which reads
\* organisation.name, on; the company_client property is read after it
CrawlCompanyLogged(y, i) ==
    IF y.q.organisations[i].name = None
    THEN [q |-> y.q, s |-> Raise(y.s, "AttributeError")]
    ELSE CrawlCompany(company_client(y), i)

\* if yield_attr: the i-th organisation's network is yielded if it has one
YieldCompanyNetwork(y, yielded, i) ==
    IF y.s.exc = NoExc /\ y.q.organisations[i].company_network # None
    THEN Append(yielded, y.q.organisations[i].company_network[1])
    ELSE yielded

\* _get_company_networks_generator(yield_attr=True) consumed from the i-th
\* organisation on: [y, yielded], yielded the Graph objects it yields
RECURSIVE _get_company_networks_generator(_, _, _)
RECURSIVE CompanyNetworksPassed(_, _, _)

\* the rest of the generator after the crawl of the i-th organisation
CompanyNetworksPassed(y, yielded, i) ==
    _get_company_networks_generator(y, YieldCompanyNetwork(y, yielded, i),
                                    i + 1)

_get_company_networks_generator(y, yielded, i) ==
    IF y.s.exc # NoExc THEN [y |-> y, yielded |-> yielded]
    ELSE IF i > Len(y.q.organisations)
    THEN [y |-> [y EXCEPT !.q._company_networks_cached = TRUE],
          yielded |-> yielded]
    ELSE CompanyNetworksPassed(
             IF CrawlsCompany(y.q, y.q.organisations[i])
             THEN CrawlCompanyLogged(y, i) ELSE y,
             yielded, i)

\* get_company_networks(reset): list(get_company_networks_generator(reset))
get_company_networks(y, reset) ==
    _get_company_networks_generator(
        IF reset THEN [y EXCEPT !.q._company_networks_cached = FALSE] ELSE y,
        <<>>, 1)

\* networkx.compose_all(graphs) of at least one graph
RECURSIVE compose_all(_)
compose_all(graphs) ==
    IF Len(graphs) = 1 THEN graphs[1]
    ELSE compose(compose_all(SubSeq(graphs, 1, Len(graphs) - 1)),
                 graphs[Len(graphs)])

\* the _parameter_state setter: setattr(self, varname, value) for the two
\* entries of the states get_composed_company_network passes
SetParameterState(s) ==
    [s EXCEPT !.compose_queried_networks = TRUE, !._reset_cache = FALSE]

\* the setter given a dict that _parameter_state returned earlier
RestoreParameterState(s, var) ==
    [s EXCEPT
        !.branches = var.branches,
        !.include_significant_controllers = var.include_significant_controllers,
        !.include_officers = var.include_officers,
        !.include_edge_data = var.include_edge_data,
        !.enforce_missing_ties = var.enforce_missing_ties,
        !.exclude_non_active_companies = var.exclude_non_active_companies,
        !.exclude_resigned_board_members = var.exclude_resigned_board_members,
        !.exclude_ceased_controllers = var.exclude_ceased_controllers,
        !._reset_cache = var.reset_cache,
        !.compose_queried_networks = var.compose_queried_networks]

\* get_composed_network(root_ids=..., parameter_states=...) of the client:
\* networks_generator consumed from the i-th seed on, each pass taking the
\* next parameter state and calling get_network
RECURSIVE ComposedWithStates(_, _, _)
ComposedWithStates(s, root_ids, i) ==
    IF s.exc # NoExc \/ i > Len(root_ids) THEN s
    ELSE ComposedWithStates(get_network(SetParameterState(s), root_ids[i]),
                            root_ids, i + 1)

\* the index of first_run in the client's runs: self.company_client.
\* _runs[prior_runs + 1], counted from 1 here
FirstRunIndex(prior_runs) == prior_runs + 2

\* the summary run that get_composed_company_network appends
SummaryRun(runs, prior_runs, root_ids) ==
    [root_id |-> root_ids, kind |-> "company",
     parameter_state |-> runs[FirstRunIndex(prior_runs)].parameter_state,
     start_time |-> runs[FirstRunIndex(prior_runs)].start_time,
     end_time |-> runs[Len(runs)].end_time,
     connected_components_count |-> runs[Len(runs)].connected_components_count,
     kinds_ids_dict |-> runs[FirstRunIndex(prior_runs)].kinds_ids_dict,
     composed_runs |-> SubSeq(runs, prior_runs + 1, Len(runs))]

\* compose_all(graphs) of the Graph objects r.yielded, appended to the
\* composed runs.  setup.py asks for networkx>=2.4, and compose_all is of
\* two forms: empty is the exception it raises when it is given no graph.
\* The form that raises StopIteration (C = next(graphs), then compose for
\* each further graph) returns the one graph it is given, the object
\* itself; the form that raises ValueError composes into a new Graph
\* object whatever the number of graphs.
AppendComposed(r, empty) ==
    IF r.y.s.exc # NoExc THEN r.y
    ELSE IF r.yielded = <<>> THEN [r.y EXCEPT !.s = Raise(@, empty)]
    ELSE IF empty = "StopIteration" /\ Len(r.yielded) = 1
    THEN [r.y EXCEPT !.q._company_composed_runs = Append(@, r.yielded[1])]
    ELSE [q |-> [r.y.q EXCEPT !._company_composed_runs =
                    Append(@, Len(r.y.s.heap) + 1)],
          s |-> [r.y.s EXCEPT !.heap =
                    Append(@, compose_all([k \in 1..Len(r.yielded) |->
                                              r.y.s.heap[r.yielded[k]]]))]]

\* get_composed_company_network() when the networks are cached: the Graph
\* objects of get_company_networks are composed unless a composed network
\* is there already
ComposedFromCache(y, empty) ==
    IF y.q._company_composed_runs # <<>> THEN y
    ELSE AppendComposed(get_company_networks(y, FALSE), empty)

\* the lines after get_composed_network, s being the client's state after
\* it: the composed Graph object is appended, then the summary of the
\* client's new runs, and the client's parameters are put back
AppendSummary(q, s, initial_parameter_state, prior_runs, root_ids) ==
    IF s.exc # NoExc THEN [q |-> q, s |-> s]
    ELSE IF FirstRunIndex(prior_runs) > Len(s._runs)
    THEN [q |-> [q EXCEPT !._company_composed_runs = Append(@, s._graph)],
          s |-> Raise(s, "IndexError")]
    ELSE [q |-> [q EXCEPT
                    !._company_composed_runs = Append(@, s._graph),
                    !._company_runs =
                        Append(@, SummaryRun(s._runs, prior_runs, root_ids))],
          s |-> RestoreParameterState(s, initial_parameter_state)]

\* get_composed_company_network() when the networks are not cached, the
\* client being there: it composes the crawls of the active company ids
ComposedFromCrawl(y) ==
    AppendSummary(y.q,
                  ComposedWithStates(y.s, ActiveCompanyIds(y.q.organisations), 1),
                  _parameter_state(y.s), Len(y.s._runs),
                  ActiveCompanyIds(y.q.organisations))

\* get_composed_company_network()
get_composed_company_network(y, empty) ==
    IF y.q._company_networks_cached THEN ComposedFromCache(y, empty)
    ELSE ComposedFromCrawl(company_client(y))

\* the ids of the active_charity_ids property, in the organisations'
\* order: [exc, v].  charity_id is read of every organisation, skipped or
\* not
RECURSIVE ActiveCharityIds(_)
ActiveCharityIds(organisations) ==
    IF organisations = <<>> THEN [exc |-> NoExc, v |-> <<>>]
    ELSE IF charity_id(organisations[1]).exc # NoExc
    THEN [exc |-> charity_id(organisations[1]).exc, v |-> <<>>]
    ELSE LET rest == ActiveCharityIds(Tail(organisations))
         IN  IF rest.exc # NoExc THEN rest
             ELSE [exc |-> NoExc,
                   v |-> (IF /\ charity_id(organisations[1]).v # None
                             /\ charity_id(organisations[1]).v[1] # 0
                             /\ ~ organisations[1]._skip_charity
                          THEN <<charity_id(organisations[1]).v[1]>>
                          ELSE <<>>) \o rest.v]

\* the summary run that get_composed_charity_network appends; success is
\* left at the default of CharityRunConfig, False
CharitySummaryRun(runs, prior_runs, root_ids, composed_network) ==
    [root_id |-> root_ids, kind |-> "charity",
     parameter_state |-> runs[FirstRunIndex(prior_runs)].parameter_state,
     start_time |-> runs[FirstRunIndex(prior_runs)].start_time,
     end_time |-> runs[Len(runs)].end_time,
     connected_components_count |->
         Some(number_connected_components(GraphOfRead(composed_network))),
     kinds_ids_dict |-> runs[FirstRunIndex(prior_runs)].kinds_ids_dict,
     success |-> Some(FALSE),
     composed_runs |-> SubSeq(runs, prior_runs + 1, Len(runs))]

\* compose_all(graph for _, graph in self.get_charity_networks()): of the
\* networks of the organisations some can be ego networks of a graph that
\* was read.  The older compose_all returns the one graph it is given, the
\* newer a copy of it, and the composition of several is a new Graph
compose_all_yielded(graphs, empty) ==
    IF \A i \in 1..Len(graphs) : ~ IsRead(graphs[i]) THEN compose_all(graphs)
    ELSE IF Len(graphs) > 1
    THEN compose_all([i \in 1..Len(graphs) |-> GraphOfRead(graphs[i])])
    ELSE IF empty = "StopIteration" THEN graphs[1]
    ELSE SubgraphCopy(graphs[1], NodeOrder(graphs[1]))

\* the lines of get_composed_charity_network after get_charity_networks,
\* x being the call after it: the networks yielded are composed and the
\* composition appended, then the summary of the new runs.  The
\* StopIteration of a compose_all that is given no graph is caught, and
\* the method returns None.
AppendCharitySummary(x, prior_runs, empty) ==
    IF x.exc # NoExc THEN x
    ELSE IF x.yielded = <<>>
    THEN (IF empty = "StopIteration" THEN x ELSE [x EXCEPT !.exc = empty])
    ELSE IF FirstRunIndex(prior_runs) > Len(x.q._charity_runs)
    THEN [x EXCEPT !.q._charity_composed_runs =
                       Append(@, compose_all_yielded(x.yielded, empty)),
                   !.exc = "IndexError"]
    ELSE IF ActiveCharityIds(x.q.organisations).exc # NoExc
    THEN [x EXCEPT !.q._charity_composed_runs =
                       Append(@, compose_all_yielded(x.yielded, empty)),
                   !.exc = ActiveCharityIds(x.q.organisations).exc]
    ELSE [x EXCEPT !.q._charity_composed_runs =
                       Append(@, compose_all_yielded(x.yielded, empty)),
                   !.q._charity_runs =
                       Append(@, CharitySummaryRun(
                                     x.q._charity_runs, prior_runs,
                                     ActiveCharityIds(x.q.organisations).v,
                                     compose_all_yielded(x.yielded, empty)))]

\* get_composed_charity_network(): the composed network of run_index -1
\* when the networks are cached, the composition of get_charity_networks()
\* when they are not
get_composed_charity_network(service, q, now, empty) ==
    IF q._charity_networks_cached
    THEN [BeginCall(q, now) EXCEPT
             !.exc = IF q._charity_composed_runs = <<>> THEN "IndexError"
                     ELSE NoExc]
    ELSE AppendCharitySummary(get_charity_networks(service, q, now, FALSE),
                              Len(q._charity_runs), empty)

\* logger.addHandler(file_log_handler(...)): the logger of the module has
\* one handler more, a FileHandler of the log file
addHandler(logger_handlers) == logger_handlers + 1

\* the try statement of get_networks under `if composed:`: the charity
\* networks are composed, then the company networks: [y, crawls]
ComposedNetworks(service, y, empty) ==
    LET x == get_composed_charity_network(service, y.q, y.s.clock, empty)
        s == [y.s EXCEPT !.clock = x.clock]
    IN  [y |-> IF x.exc # NoExc THEN [q |-> x.q, s |-> Raise(s, x.exc)]
               ELSE get_composed_company_network([q |-> x.q, s |-> s], empty),
         crawls |-> x.crawls]

\* get_networks(composed=..., log_file=...) after the handler of log_file:
\* start is read of the clock, with composed the networks are composed,
\* and the finally clause reads end of the clock.  Without composed
\* nothing is crawled, and the return statement reads charity_network,
\* which no statement assigned: UnboundLocalError.  [y, crawls]
get_networks(service, y, composed, empty) ==
    LET networks == ComposedNetworks(service, [y EXCEPT !.s = Tick(@)], empty)
    IN  IF composed
        THEN [y |-> [networks.y EXCEPT !.s = Tick(@)],
              crawls |-> networks.crawls]
        ELSE [y |-> [y EXCEPT !.s = Raise(Tick(Tick(@)), "UnboundLocalError")],
              crawls |-> <<>>]

\* next() of a generator of get_charity_networks_generator whose for loop
\* reads the i-th organisation next: the passes up to the first that
\* yields, [x, i].  i is 0 when the generator is over: it raised, or the
\* loop ended, the networks are flagged as cached and next raises
\* StopIteration
RECURSIVE CharityNetworksNext(_, _, _)
CharityNetworksNext(service, x, i) ==
    IF i > Len(x.q.organisations)
    THEN [x |-> [x EXCEPT !.q._charity_networks_cached = TRUE,
                          !.exc = "StopIteration"],
          i |-> 0]
    ELSE LET passed == CharityNetworksPass(service, x, i)
         IN  IF passed.exc # NoExc THEN [x |-> passed, i |-> 0]
             ELSE IF passed.yielded # x.yielded
             THEN [x |-> passed, i |-> i + 1]
             ELSE CharityNetworksNext(service, passed, i + 1)

\* next() of a generator of get_company_networks_generator, likewise:
\* [y, i]
RECURSIVE CompanyNetworksNext(_, _)
CompanyNetworksNext(y, i) ==
    IF i > Len(y.q.organisations)
    THEN [y |-> [q |-> [y.q EXCEPT !._company_networks_cached = TRUE],
                 s |-> Raise(y.s, "StopIteration")],
          i |-> 0]
    ELSE LET passed == IF CrawlsCompany(y.q, y.q.organisations[i])
                       THEN CrawlCompanyLogged(y, i) ELSE y
         IN  IF passed.s.exc # NoExc THEN [y |-> passed, i |-> 0]
             ELSE IF YieldCompanyNetwork(passed, <<>>, i) # <<>>
             THEN [y |-> passed, i |-> i + 1]
             ELSE CompanyNetworksNext(passed, i + 1)

\* list.insert(index, value)
ListInsert(list, index, value) ==
    LET k == IF index < 0
             THEN (IF index + Len(list) < 0 THEN 0 ELSE index + Len(list))
             ELSE (IF index > Len(list) THEN Len(list) ELSE index)
    IN  SubSeq(list, 1, k) \o <<value>> \o SubSeq(list, k + 1, Len(list))

\* the place of list[index], counted from 1; 0 for an index out of range
ListIndex(list, index) ==
    IF index >= 0 /\ index < Len(list) THEN index + 1
    ELSE IF index < 0 /\ index + Len(list) >= 0 THEN index + Len(list) + 1
    ELSE 0

\* insert(index, value): [q, exc]
insert(q, index, value) ==
    [q |-> [q EXCEPT !.organisations = ListInsert(@, index, value)],
     exc |-> NoExc]

\* __setitem__(index, value): [q, exc]
__setitem__(q, index, value) ==
    IF ListIndex(q.organisations, index) = 0
    THEN [q |-> q, exc |-> "IndexError"]
    ELSE [q |-> [q EXCEPT !.organisations[ListIndex(q.organisations, index)] =
                              value],
          exc |-> NoExc]

\* __delitem__(index): [q, exc]
__delitem__(q, index) ==
    IF ListIndex(q.organisations, index) = 0
    THEN [q |-> q, exc |-> "IndexError"]
    ELSE [q |-> [q EXCEPT !.organisations =
                    SubSeq(@, 1, ListIndex(q.organisations, index) - 1)
                    \o SubSeq(@, ListIndex(q.organisations, index) + 1,
                              Len(@))],
          exc |-> NoExc]

\* what _read_network appends to the runs: the metadata that
\* read_json_graph returned, a dict or None
Metadata(metadata) == [kind |-> "metadata", metadata |-> metadata]

\* _read_network: getattr(self, f"_{network_type}_runs").append(metadata)
AppendMetadata(y, network_type, metadata) ==
    IF network_type = "charity"
    THEN [y EXCEPT !.q._charity_runs = Append(@, Metadata(metadata))]
    ELSE [y EXCEPT !.q._company_runs = Append(@, Metadata(metadata))]

\* _read_network: getattr(self, f"_{network_type}_composed_runs").
\* append(graph); the Graph that was read is a new object
AppendRead(y, network_type, graph) ==
    IF network_type = "charity"
    THEN [y EXCEPT !.q._charity_composed_runs = Append(@, graph)]
    ELSE [q |-> [y.q EXCEPT !._company_composed_runs =
                    Append(@, Len(y.s.heap) + 1)],
          s |-> [y.s EXCEPT !.heap = Append(@, graph)]]

\* _read_network(network_type, path, add_meta_data, latest=False, store)
\* of the file at path
_read_network(y, network_type, file, add_meta_data, store) ==
    LET was_read == read_json_graph(file, add_meta_data)
        with_metadata == IF add_meta_data
                         THEN AppendMetadata(y, network_type,
                                             was_read.metadata)
                         ELSE y
    IN  IF y.s.exc # NoExc THEN y
        ELSE IF was_read.exc # NoExc
        THEN [y EXCEPT !.s = Raise(@, was_read.exc)]
        ELSE IF store
        THEN AppendRead(with_metadata, network_type, was_read.graph)
        ELSE with_metadata

\* read_networks(charities, companies, path=..., add_meta_data=...,
\* store=...)
read_networks(y, charities, companies, file, add_meta_data, store) ==
    LET charity_read == IF charities
                        THEN _read_network(y, "charity", file, add_meta_data,
                                           store)
                        ELSE y
    IN  IF companies
        THEN _read_network(charity_read, "company", file, add_meta_data,
                           store)
        ELSE charity_read

---------------------------------------------------------------------------
(* The ego networks of the organisations: networkx.ego_graph on the graph  *)
(* of the last run, which the sequence crawled or read from a file.        *)

\* radius = radius or hops * 2 + 1
Radius(hops, radius) ==
    IF radius # None /\ radius[1] # 0 THEN radius[1] ELSE hops * 2 + 1

\* getattr(self, f"_{network_type}_composed_runs") with from_composed,
\* getattr(self, f"_{network_type}_runs") without
EgoRuns(q, network_type, from_composed) ==
    IF network_type = "charity"
    THEN (IF from_composed THEN q._charity_composed_runs ELSE q._charity_runs)
    ELSE (IF from_composed THEN q._company_composed_runs ELSE q._company_runs)

\* graph, what run_index -1 of the runs holds: of the composed runs a
\* Graph, which for companies is an object of the heap; of the runs a run
\* record or the metadata that was read
EgoSource(y, network_type, from_composed) ==
    LET runs == EgoRuns(y.q, network_type, from_composed)
    IN  IF from_composed /\ network_type = "company"
        THEN y.s.heap[runs[Len(runs)]]
        ELSE runs[Len(runs)]

\* assert len(graph) > 0: the exception it raises, NoExc for none.  A run
\* record has no len(), nor has the None of a file without metadata
EgoAsserted(graph, from_composed) ==
    IF from_composed
    THEN (IF Len(NodeOrder(graph)) > 0 THEN NoExc ELSE "AssertionError")
    ELSE IF graph.kind # "metadata" \/ graph.metadata = None THEN "TypeError"
    ELSE IF graph.metadata[1] = <<>> THEN "AssertionError"
    ELSE NoExc

\* getattr(organisation, f"{network_type}_id"): [exc, v], v None for an id
\* that is not true
EgoId(organisation, network_type) ==
    IF network_type = "charity" THEN charity_id(organisation)
    ELSE [exc |-> NoExc,
          v |-> IF organisation.company_id = None
                   \/ organisation.company_id[1] = <<>>
                THEN None ELSE organisation.company_id]

\* getattr(organisation, f"_skip_{network_type}")
EgoSkipped(organisation, network_type) ==
    IF network_type = "charity" THEN organisation._skip_charity
    ELSE organisation._skip_company

\* ego_graph(graph, id, radius) of the generator's graph: the metadata
\* that was read is a dict, and no id of an organisation is a key of it
EgoGraphOf(graph, network_type, from_composed, id, radius) ==
    IF ~ from_composed THEN [exc |-> "NodeNotFound", v |-> {}]
    ELSE ego_graph(graph, NodeOfId(graph, network_type, id), radius)

\* setattr(organisation, f"{network_type}_network", org_graph) for the
\* i-th organisation; org_graph is a new Graph object
StoreEgoNetwork(y, network_type, i, org_graph) ==
    IF network_type = "charity"
    THEN [y EXCEPT !.q.organisations[i].charity_network = Some(org_graph)]
    ELSE [q |-> [y.q EXCEPT !.organisations[i].company_network =
                    Some(Len(y.s.heap) + 1)],
          s |-> [y.s EXCEPT !.heap = Append(@, org_graph)]]

\* e is an _ego_networks_generator being consumed: the call y and the
\* number of ego networks yielded.

\* one pass of the for loop of _ego_networks_generator, for the i-th
\* organisation: the ways it can end
EgoNetworksPass(e, network_type, graph, store, radius, from_composed, i) ==
    LET organisation == e.y.q.organisations[i]
        id == EgoId(organisation, network_type)
        org_graphs == EgoGraphOf(graph, network_type, from_composed,
                                 id.v[1], radius)
    IN  IF id.exc # NoExc THEN {[e EXCEPT !.y.s = Raise(@, id.exc)]}
        ELSE IF id.v = None \/ EgoSkipped(organisation, network_type) THEN {e}
        ELSE IF org_graphs.exc # NoExc
        THEN (IF organisation.name = None  \* the log line reads the name
              THEN {[e EXCEPT !.y.s = Raise(@, "AttributeError")]}
              ELSE {e})
        ELSE {[y |-> IF store
                     THEN StoreEgoNetwork(e.y, network_type, i, org_graph)
                     ELSE e.y,
               yielded |-> e.yielded + 1] : org_graph \in org_graphs.v}

\* the for loop from the i-th organisation on: the ways it can end, es
\* being the ways the passes before ended
RECURSIVE EgoNetworksLoop(_, _, _, _, _, _, _)
EgoNetworksLoop(es, network_type, graph, store, radius, from_composed, i) ==
    IF \A e \in es : e.y.s.exc # NoExc \/ i > Len(e.y.q.organisations) THEN es
    ELSE EgoNetworksLoop(
             UNION {IF e.y.s.exc # NoExc THEN {e}
                    ELSE EgoNetworksPass(e, network_type, graph, store, radius,
                                         from_composed, i) : e \in es},
             network_type, graph, store, radius, from_composed, i + 1)

\* _ego_networks_generator(network_type, store, hops, radius,
\* from_composed) consumed to its end: the ways it can end
_ego_networks_generator(y, network_type, store, hops, radius, from_composed) ==
    IF EgoRuns(y.q, network_type, from_composed) = <<>>
    THEN {[y |-> [y EXCEPT !.s = Raise(@, "NoLoadedNetworkDataError")],
           yielded |-> 0]}
    ELSE IF EgoAsserted(EgoSource(y, network_type, from_composed),
                        from_composed) # NoExc
    THEN {[y |-> [y EXCEPT !.s =
                     Raise(@, EgoAsserted(EgoSource(y, network_type,
                                                    from_composed),
                                          from_composed))],
           yielded |-> 0]}
    ELSE EgoNetworksLoop({[y |-> y, yielded |-> 0]}, network_type,
                         EgoSource(y, network_type, from_composed), store,
                         Radius(hops, radius), from_composed, 1)

\* get_charity_ego_networks(...) and get_company_ego_networks(...):
\* list(self._ego_networks_generator(network_type, ...)); the calls it can
\* leave
get_ego_networks(y, network_type, store, hops, radius, from_composed) ==
    {e.y : e \in _ego_networks_generator(y, network_type, store, hops, radius,
                                         from_composed)}

\* get_composed_charity_ego_network(...) and
\* get_composed_company_ego_network(...): compose_all of the graphs the
\* generator yields, which raises empty when it yields none
get_composed_ego_network(y, network_type, store, hops, radius, from_composed, empty) ==
    {IF e.y.s.exc = NoExc /\ e.yielded = 0
     THEN [e.y EXCEPT !.s = Raise(@, empty)] ELSE e.y :
        e \in _ego_networks_generator(y, network_type, store, hops, radius,
                                      from_composed)}

---------------------------------------------------------------------------
(* The specification of an OrganisationSequence: it is made of the         *)
(* organisations read, and its networks are asked for.                     *)

\* the most organisations a sequence is read with
MaxOrganisations == 2
\* the most calls made on one sequence, next() of a generator apart
MaxSequenceCalls == 2
\* the most calls of next() made on the generators of one sequence
MaxSequenceSteps == 3
\* the most generators made of one sequence
MaxGenerators == 1
\* the most changes made to the organisations of one sequence
MaxSequenceChanges == 1
\* the largest branches value of the charity and the company parameters
MaxSequenceBranches == 1
\* the most calls of the ego network methods made on one sequence
MaxEgoCalls == 1

\* the organisations read: with or without a charity id, an int or a str
\* of digits, with or without a company id; two whose charity or company
\* is to be skipped; two whose charity id is no number, and two of a row
\* without the organisation's name
OrganisationEntries ==
    {OrganisationEntry(Some(<<"O">>), charity, company_id, FALSE, FALSE) :
        charity \in {NoValue, PyInt(11), PyStr(<<"1", "3">>), PyInt(14),
                     PyInt(15), PyInt(16)},
        company_id \in {None, Some(Co("1")), Some(Co("2")), Some(Co("3"))}}
    \cup {OrganisationEntry(Some(<<"O">>), PyInt(11), Some(Co("1")), TRUE,
                            FALSE),
          OrganisationEntry(Some(<<"O">>), PyInt(11), Some(Co("1")), FALSE,
                            TRUE),
          OrganisationEntry(Some(<<"O">>), PyStr(<<"1", "1", ".", "0">>),
                            None, FALSE, FALSE),
          OrganisationEntry(None, PyStr(<<"1", "2", "a">>), None, FALSE,
                            FALSE),
          OrganisationEntry(None, PyInt(11), Some(Co("1")), FALSE, FALSE)}

\* the organisations of the sequences that are iterated step by step,
\* changed and read into: with a charity that has a graph (11), or one
\* whose crawl of a related charity raises (15), or none, and with a
\* company or none
StepEntries ==
    {OrganisationEntry(Some(<<"O">>), PyInt(11), Some(Co("1")), FALSE, FALSE),
     OrganisationEntry(Some(<<"O">>), PyInt(15), Some(Co("1")), FALSE, FALSE),
     OrganisationEntry(Some(<<"O">>), NoValue, Some(Co("2")), FALSE, FALSE),
     OrganisationEntry(Some(<<"O">>), PyInt(11), None, FALSE, FALSE)}

\* the organisations of the sequences whose ego networks are asked for:
\* one with a charity that has a graph and with a company, and one with a
\* charity of which there is no record
EgoEntries ==
    {OrganisationEntry(Some(<<"O">>), PyInt(11), Some(Co("1")), FALSE, FALSE),
     OrganisationEntry(Some(<<"O">>), PyInt(14), None, FALSE, FALSE)}

\* the hops and the radius the ego network methods are called with
EgoHops == {0, 1}
EgoRadii == {None, Some(2)}

\* the organisations that are inserted and set
EntriesSet ==
    {OrganisationEntry(Some(<<"O">>), PyInt(15), Some(Co("2")), FALSE, FALSE)}

\* the Graph of the files that are read: the node of the docstring
GraphRead ==
    AddNode(EmptyGraph, PyStr(<<"1", "0", "5", "4", "7", "5", "8", "1">>),
            NodeAttributes(PyStr(<<"1", "0", "5", "4", "7", "5", "8", "1">>),
                           FALSE))

\* the Graph of the file of a charity network: charity 11 and a trustee
CharityGraphRead ==
    AddEdge(AddNode(EmptyGraph, PyInt(11), NodeAttributes(PyInt(11), FALSE)),
            PyInt(11), PyInt(7), <<>>)

\* the files read: write_json_graph wrote them, with the metadata of the
\* tests and without metadata
FilesRead ==
    {write_json_graph(graph, additional_data,
                      CHOOSE order \in SetOrders : TRUE) :
        graph \in {GraphRead, CharityGraphRead},
        additional_data \in {None, Some(TestMetadata)}}

\* a sequence is made of organisations among entries; no client is, and
\* nothing was asked of it
SequenceOf(entries) ==
    /\ registry = RegistryInterlock
    /\ constructed = NotConstructed
    /\ branches = 0
    /\ include_significant_controllers = FALSE
    /\ include_officers = FALSE
    /\ include_edge_data = FALSE
    /\ enforce_missing_ties = FALSE
    /\ exclude_non_active_companies = FALSE
    /\ exclude_resigned_board_members = FALSE
    /\ exclude_ceased_controllers = FALSE
    /\ compose_queried_networks = FALSE
    /\ _reset_cache = FALSE
    /\ _root_id = None
    /\ _graph = 0
    /\ _officer_appointments_cache = <<>>
    /\ _runs = <<>>
    /\ _query_start = None
    /\ _query_end = None
    /\ heap = <<>>
    /\ clock = 10
    /\ requests = <<>>
    /\ calls = <<>>
    /\ generator = NoGenerator
    /\ resource = NoResource
    /\ frames = <<>>
    /\ sent = <<>>
    /\ returns = <<>>
    /\ given = NotGiven
    /\ normalised = <<>>
    /\ filtered = NotFiltered
    /\ crawled = NotCrawled
    /\ crawling = NotCrawling
    /\ executed = 0
    /\ written = NotWritten
    /\ graph_file = None
    /\ read = NotRead
    /\ \E n \in 0..MaxOrganisations :
       \E organisations \in [1..n -> entries] :
       \E charity_hops, company_hops \in 0..MaxSequenceBranches :
          organisation_sequence =
              OrganisationSequence(organisations, charity_hops, company_hops)
    /\ sequence_calls = <<>>
    /\ iterating = NotIterating
    /\ handlers = 1

InitSequence == SequenceOf(OrganisationEntries)

InitSequenceSteps == SequenceOf(StepEntries)

InitSequenceEgo == SequenceOf(EgoEntries)

\* the calls of the ego network methods
EgoOps ==
    {"get_charity_ego_networks", "get_company_ego_networks",
     "get_composed_charity_ego_network", "get_composed_company_ego_network"}

\* the number of calls made of the ego network methods
EgoCallsMade ==
    Cardinality({k \in 1..Len(sequence_calls) :
                    sequence_calls[k].op \in EgoOps})

\* the calls of next() on a generator, and the calls that begin one with
\* their first next()
StepOps ==
    {"get_charity_networks_generator", "get_company_networks_generator",
     "next"}

\* the numbers of calls of next() made, and of the other calls, those of
\* the ego network methods apart
StepsMade ==
    Cardinality({k \in 1..Len(sequence_calls) :
                    sequence_calls[k].op \in StepOps})
CallsMade == Len(sequence_calls) - StepsMade - EgoCallsMade

\* the number of changes made to the organisations
ChangesMade ==
    Cardinality({k \in 1..Len(sequence_calls) :
                    sequence_calls[k].op \in
                        {"insert", "__setitem__", "__delitem__"}})

\* the number of generators made
GeneratorsMade ==
    Cardinality({k \in 1..Len(sequence_calls) :
                    sequence_calls[k].op \in StepOps \ {"next"}})

\* how a call on the sequence ended: the exception it raised, the sequence
\* before it, the charity crawls it made, and the number of runs the
\* company client had before it
SequenceCall(op, exc, crawls) ==
    [op |-> op, exc |-> exc, before |-> organisation_sequence,
     crawls |-> crawls, prior_runs |-> Len(_runs)]

\* the company client is as the call leaves it
CommitClient(y) ==
    /\ Commit(y.s)
    /\ organisation_sequence' = y.q
    /\ constructed' = IF y.q.has_company_client
                      THEN [status |-> "yes",
                            branches |-> Some([type |-> "int",
                                value |-> y.q.company_client_params.branches]),
                            exc |-> NoExc]
                      ELSE constructed

\* the sequence and the clock are as the call leaves them
CharityCallMade(x, op) ==
    /\ Commit([Self EXCEPT !.clock = x.clock])
    /\ organisation_sequence' = x.q
    /\ sequence_calls' = Append(sequence_calls, SequenceCall(op, x.exc, x.crawls))

\* a call of get_charity_networks(reset) on the sequence
GetCharityNetworks ==
    /\ CallsMade < MaxSequenceCalls
    /\ \E reset \in BOOLEAN :
          CharityCallMade(get_charity_networks(
                              Commission, organisation_sequence, clock, reset),
                          "get_charity_networks")
    /\ UNCHANGED <<registry, constructed, calls, generator, transport,
                   normaliser, filtered, crawled, crawling, executed,
                   serialiser, iterating, handlers>>

\* a call of get_composed_charity_network() on the sequence
GetComposedCharityNetwork ==
    /\ CallsMade < MaxSequenceCalls
    /\ \E empty \in {"ValueError", "StopIteration"} :
          CharityCallMade(get_composed_charity_network(
                              Commission, organisation_sequence, clock, empty),
                          "get_composed_charity_network")
    /\ UNCHANGED <<registry, constructed, calls, generator, transport,
                   normaliser, filtered, crawled, crawling, executed,
                   serialiser, iterating, handlers>>

\* the sequence and its client are as the call leaves them
CompanyCallMade(y, op) ==
    /\ CommitClient(y)
    /\ sequence_calls' = Append(sequence_calls, SequenceCall(op, y.s.exc, <<>>))

\* a call of get_company_networks(reset) on the sequence
GetCompanyNetworks ==
    /\ CallsMade < MaxSequenceCalls
    /\ \E reset \in BOOLEAN :
          CompanyCallMade(
              get_company_networks(
                  [q |-> organisation_sequence, s |-> Self], reset).y,
              "get_company_networks")
    /\ UNCHANGED <<registry, calls, generator, transport, normaliser,
                   filtered, crawled, crawling, executed, serialiser,
                   iterating, handlers>>

\* a call of get_composed_company_network() on the sequence
GetComposedCompanyNetwork ==
    /\ CallsMade < MaxSequenceCalls
    /\ \E empty \in {"ValueError", "StopIteration"} :
          CompanyCallMade(
              get_composed_company_network(
                  [q |-> organisation_sequence, s |-> Self], empty),
              "get_composed_company_network")
    /\ UNCHANGED <<registry, calls, generator, transport, normaliser,
                   filtered, crawled, crawling, executed, serialiser,
                   iterating, handlers>>

\* a call of get_networks(composed=..., log_file=...) on the sequence
GetNetworks ==
    /\ CallsMade < MaxSequenceCalls
    /\ \E composed, log_file \in BOOLEAN :
       \E empty \in {"ValueError", "StopIteration"} :
       \E r \in {get_networks(Commission,
                              [q |-> organisation_sequence, s |-> Self],
                              composed, empty)} :
          /\ CommitClient(r.y)
          /\ sequence_calls' =
                Append(sequence_calls,
                       SequenceCall("get_networks", r.y.s.exc, r.crawls))
          /\ handlers' = IF log_file THEN addHandler(handlers) ELSE handlers
    /\ UNCHANGED <<registry, calls, generator, transport, normaliser,
                   filtered, crawled, crawling, executed, serialiser,
                   iterating>>

NextSequence ==
    \/ GetCharityNetworks
    \/ GetCompanyNetworks
    \/ GetComposedCharityNetwork
    \/ GetComposedCompanyNetwork
    \/ GetNetworks

SpecSequence == InitSequence /\ [][NextSequence]_vars

\* next() returned or raised: the generator is suspended at the yield of
\* the organisation before the r.i-th, or it is over
CharityNetworksStepped(r, op) ==
    /\ CharityCallMade(r.x, op)
    /\ iterating' = IF r.i = 0 THEN NotIterating ELSE Iterating("charity", r.i)
    /\ UNCHANGED <<registry, constructed, calls, generator, transport,
                   normaliser, filtered, crawled, crawling, executed,
                   serialiser, handlers>>

CompanyNetworksStepped(r, op) ==
    /\ CompanyCallMade(r.y, op)
    /\ iterating' = IF r.i = 0 THEN NotIterating ELSE Iterating("company", r.i)
    /\ UNCHANGED <<registry, calls, generator, transport, normaliser,
                   filtered, crawled, crawling, executed, serialiser,
                   handlers>>

\* g = get_charity_networks_generator(reset) and the first next(g)
BeginCharityNetworks ==
    /\ GeneratorsMade < MaxGenerators
    /\ StepsMade < MaxSequenceSteps
    /\ \E reset \in BOOLEAN :
          CharityNetworksStepped(
              CharityNetworksNext(
                  Commission,
                  BeginCall(IF reset
                            THEN [organisation_sequence EXCEPT
                                     !._charity_networks_cached = FALSE]
                            ELSE organisation_sequence,
                            clock),
                  1),
              "get_charity_networks_generator")

\* g = get_company_networks_generator(reset) and the first next(g)
BeginCompanyNetworks ==
    /\ GeneratorsMade < MaxGenerators
    /\ StepsMade < MaxSequenceSteps
    /\ \E reset \in BOOLEAN :
          CompanyNetworksStepped(
              CompanyNetworksNext(
                  [q |-> IF reset
                         THEN [organisation_sequence EXCEPT
                                  !._company_networks_cached = FALSE]
                         ELSE organisation_sequence,
                   s |-> Self],
                  1),
              "get_company_networks_generator")

\* next(g) of the generator of charity networks that is suspended
ResumeCharityNetworks ==
    /\ StepsMade < MaxSequenceSteps
    /\ iterating.kind = "charity"
    /\ CharityNetworksStepped(
           CharityNetworksNext(Commission,
                               BeginCall(organisation_sequence, clock),
                               iterating.i),
           "next")

\* next(g) of the generator of company networks that is suspended
ResumeCompanyNetworks ==
    /\ StepsMade < MaxSequenceSteps
    /\ iterating.kind = "company"
    /\ CompanyNetworksStepped(
           CompanyNetworksNext([q |-> organisation_sequence, s |-> Self],
                               iterating.i),
           "next")

\* the organisations are as the call leaves them; nothing else changes
OrganisationsSet(r, op) ==
    /\ organisation_sequence' = r.q
    /\ sequence_calls' = Append(sequence_calls, SequenceCall(op, r.exc, <<>>))
    /\ UNCHANGED <<client, transport, normaliser, filtered, crawled, crawling,
                   executed, serialiser, iterating, handlers>>

\* sequence.insert(index, value)
Insert ==
    /\ CallsMade < MaxSequenceCalls
    /\ ChangesMade < MaxSequenceChanges
    /\ \E index \in -1..Len(organisation_sequence.organisations) :
       \E value \in EntriesSet :
          OrganisationsSet(insert(organisation_sequence, index, value),
                           "insert")

\* sequence[index] = value
SetItem ==
    /\ CallsMade < MaxSequenceCalls
    /\ ChangesMade < MaxSequenceChanges
    /\ \E index \in -1..Len(organisation_sequence.organisations) :
       \E value \in EntriesSet :
          OrganisationsSet(__setitem__(organisation_sequence, index, value),
                           "__setitem__")

\* del sequence[index]
DelItem ==
    /\ CallsMade < MaxSequenceCalls
    /\ ChangesMade < MaxSequenceChanges
    /\ \E index \in -1..Len(organisation_sequence.organisations) :
          OrganisationsSet(__delitem__(organisation_sequence, index),
                           "__delitem__")

\* the company_client property is read of a sequence that has no client
CompanyClient ==
    /\ CallsMade < MaxSequenceCalls
    /\ ~ organisation_sequence.has_company_client
    /\ CompanyCallMade(company_client([q |-> organisation_sequence,
                                       s |-> Self]),
                       "company_client")
    /\ UNCHANGED <<registry, calls, generator, transport, normaliser,
                   filtered, crawled, crawling, executed, serialiser,
                   iterating, handlers>>

\* the sequence and the Graph objects are as the reading leaves them
NetworkRead(y, op) ==
    /\ Commit([y.s EXCEPT !.exc = NoExc])
    /\ organisation_sequence' = y.q
    /\ sequence_calls' = Append(sequence_calls, SequenceCall(op, y.s.exc, <<>>))
    /\ UNCHANGED <<registry, constructed, calls, generator, transport,
                   normaliser, filtered, crawled, crawling, executed,
                   serialiser, iterating, handlers>>

\* read_charity_network(path=..., add_meta_data=..., store=...)
ReadCharityNetwork ==
    /\ CallsMade < MaxSequenceCalls
    /\ \E file \in FilesRead : \E add_meta_data, store \in BOOLEAN :
          NetworkRead(_read_network([q |-> organisation_sequence, s |-> Self],
                                    "charity", file, add_meta_data, store),
                      "read_charity_network")

\* read_company_network(path=..., add_meta_data=..., store=...)
ReadCompanyNetwork ==
    /\ CallsMade < MaxSequenceCalls
    /\ \E file \in FilesRead : \E add_meta_data, store \in BOOLEAN :
          NetworkRead(_read_network([q |-> organisation_sequence, s |-> Self],
                                    "company", file, add_meta_data, store),
                      "read_company_network")

\* read_networks(charities, companies, path=..., add_meta_data=...,
\* store=...)
ReadNetworks ==
    /\ CallsMade < MaxSequenceCalls
    /\ \E file \in FilesRead :
       \E charities, companies, add_meta_data, store \in BOOLEAN :
          NetworkRead(read_networks([q |-> organisation_sequence, s |-> Self],
                                    charities, companies, file, add_meta_data,
                                    store),
                      "read_networks")

\* the calls on a sequence whose generators are consumed step by step and
\* whose organisations are changed
NextSequenceSteps ==
    \/ GetCharityNetworks
    \/ GetCompanyNetworks
    \/ GetComposedCharityNetwork
    \/ GetComposedCompanyNetwork
    \/ GetNetworks
    \/ CompanyClient
    \/ BeginCharityNetworks
    \/ BeginCompanyNetworks
    \/ ResumeCharityNetworks
    \/ ResumeCompanyNetworks
    \/ Insert
    \/ SetItem
    \/ DelItem

SpecSequenceSteps == InitSequenceSteps /\ [][NextSequenceSteps]_vars

\* the calls on a sequence into which networks are read from files
NextSequenceFiles ==
    \/ GetCharityNetworks
    \/ GetCompanyNetworks
    \/ GetComposedCharityNetwork
    \/ GetComposedCompanyNetwork
    \/ GetNetworks
    \/ CompanyClient
    \/ ReadCharityNetwork
    \/ ReadCompanyNetwork
    \/ ReadNetworks

SpecSequenceFiles == InitSequenceSteps /\ [][NextSequenceFiles]_vars

\* the sequence and the Graph objects are as the call of an ego network
\* method leaves them
EgoCallMade(y, op) ==
    /\ Commit([y.s EXCEPT !.exc = NoExc])
    /\ organisation_sequence' = y.q
    /\ sequence_calls' = Append(sequence_calls, SequenceCall(op, y.s.exc, <<>>))
    /\ UNCHANGED <<registry, constructed, calls, generator, transport,
                   normaliser, filtered, crawled, crawling, executed,
                   serialiser, iterating, handlers>>

\* get_charity_ego_networks(store=..., hops=..., radius=...,
\* from_composed=...)
GetCharityEgoNetworks ==
    /\ EgoCallsMade < MaxEgoCalls
    /\ \E store, from_composed \in BOOLEAN :
       \E hops \in EgoHops : \E radius \in EgoRadii :
       \E y \in get_ego_networks([q |-> organisation_sequence, s |-> Self],
                                 "charity", store, hops, radius,
                                 from_composed) :
          EgoCallMade(y, "get_charity_ego_networks")

\* get_company_ego_networks(store=..., hops=..., radius=...,
\* from_composed=...)
GetCompanyEgoNetworks ==
    /\ EgoCallsMade < MaxEgoCalls
    /\ \E store, from_composed \in BOOLEAN :
       \E hops \in EgoHops : \E radius \in EgoRadii :
       \E y \in get_ego_networks([q |-> organisation_sequence, s |-> Self],
                                 "company", store, hops, radius,
                                 from_composed) :
          EgoCallMade(y, "get_company_ego_networks")

\* get_composed_charity_ego_network(store=..., hops=..., radius=...,
\* from_composed=...)
GetComposedCharityEgoNetwork ==
    /\ EgoCallsMade < MaxEgoCalls
    /\ \E store, from_composed \in BOOLEAN :
       \E hops \in EgoHops : \E radius \in EgoRadii :
       \E empty \in {"ValueError", "StopIteration"} :
       \E y \in get_composed_ego_network(
                    [q |-> organisation_sequence, s |-> Self], "charity",
                    store, hops, radius, from_composed, empty) :
          EgoCallMade(y, "get_composed_charity_ego_network")

\* get_composed_company_ego_network(store=..., hops=..., radius=...,
\* from_composed=...)
GetComposedCompanyEgoNetwork ==
    /\ EgoCallsMade < MaxEgoCalls
    /\ \E store, from_composed \in BOOLEAN :
       \E hops \in EgoHops : \E radius \in EgoRadii :
       \E empty \in {"ValueError", "StopIteration"} :
       \E y \in get_composed_ego_network(
                    [q |-> organisation_sequence, s |-> Self], "company",
                    store, hops, radius, from_composed, empty) :
          EgoCallMade(y, "get_composed_company_ego_network")

\* the calls on a sequence whose ego networks are asked for, of the
\* networks it crawled and of one it read from a file
NextSequenceEgo ==
    \/ GetCharityNetworks
    \/ GetCompanyNetworks
    \/ GetComposedCharityNetwork
    \/ GetComposedCompanyNetwork
    \/ GetNetworks
    \/ GetCharityEgoNetworks
    \/ GetCompanyEgoNetworks
    \/ GetComposedCharityEgoNetwork
    \/ GetComposedCompanyEgoNetwork
    \/ ReadCharityNetwork

SpecSequenceEgo == InitSequenceEgo /\ [][NextSequenceEgo]_vars

---------------------------------------------------------------------------
(* filter_active_board_members on the graphs get_network returns.          *)

\* filter_active_board_members(g) for the Graph object a call of
\* get_network returned, as it is now
FilterActiveBoardMembers ==
    /\ ~ filtered.done
    /\ \E k \in 1..Len(calls) :
          /\ calls[k].exc = NoExc
          /\ filtered' = filter_active_board_members(heap[calls[k].ret[1]],
                                                     clock)
    /\ UNCHANGED <<client, transport, normaliser, serialiser, sequencer,
                   crawled, crawling, executed>>

NextFilter ==
    \/ Construct
    \/ GetNetwork
    \/ SetResetCache
    \/ FilterActiveBoardMembers

SpecFilter == Init /\ [][NextFilter]_vars

---------------------------------------------------------------------------
(* The functions get_company_network and _get_network_branches of          *)
(* companies.py, which crawl without a client.  A call is threaded as one  *)
(* value: g, the Graph of the call; none, whether it returns None; exc;    *)
(* the requests sent; the clock.  kw are the keyword arguments handed      *)
(* on: include_officers and include_edge_data of the call, and             *)
(* enforce_missing_ties, exclude_non_active_companies and                  *)
(* exclude_resigned_board_members of **kwargs.                             *)

\* the largest branches value the function is called with
MaxFunctionBranches == 2

\* g = Graph() at the start of a call that has sent the requests of f
NewCall(f) == [f EXCEPT !.g = Graph, !.none = FALSE]

\* the key of the node the warning of _get_network_branches reads
OfficerIdLiteral == <<"o", "f", "f", "i", "c", "e", "r", "_", "i", "d">>

\* networkx.is_connected(G) for a Graph with a node
is_connected(G) == number_connected_components(G) = 1

\* get_company_network: `if not company: return None`, and the add_node of
\* the company under the company_id it was given
FunctionCompanyNode(q, company_id) ==
    IF q.s.exc # NoExc THEN q.s
    ELSE IF q.v.st # "ok" THEN [q.s EXCEPT !.none = TRUE]
    ELSE IF get_company_category(company_id).exc # NoExc
    THEN Raise(q.s, get_company_category(company_id).exc)
    ELSE [q.s EXCEPT !.g = add_node(@, company_id,
             [keys |-> {"name", "category", "bipartite", "data"},
              name |-> q.v.company_name,
              category |-> get_company_category(company_id).v,
              bipartite |-> 0,
              data |-> [tag |-> "company", reply |-> q.v]])]

\* get_company_network: the add_node of an officer; name is
\* officer_data["name"], a str or None (written <<>>)
FunctionOfficerNode(f, officer_data) ==
    [f EXCEPT !.g = add_node(@, officer_data.id,
        [keys |-> {"name", "bipartite", "data"},
         name |-> officer_data.name.s, bipartite |-> 1,
         data |-> [tag |-> "officer", reply |-> officer_data]])]

\* the dict get_company_network builds from get_officer_appointments
FunctionAppointments(reply) ==
    IF reply.st = "ok"
    THEN AppointmentsDict(reply.items, FALSE, Len(reply.items))
    ELSE <<>>

\* get_company_network: the add_edge of the company and the officer, with
\* the appointment to the company, or None, as data when include_edge_data;
\* an add_edge without data leaves the data of an edge that is there
FunctionEdge(f, appointments, officer_id, company_id, kw) ==
    IF f.exc # NoExc THEN f
    ELSE [f EXCEPT !.g = add_edge(@, company_id, officer_id,
             IF ~ kw.include_edge_data THEN NoData
             ELSE IF DictHas(appointments, company_id)
             THEN Some([appointment_data |->
                           Some(DictGet(appointments, company_id))])
             ELSE Some([appointment_data |-> None]))]

RECURSIVE get_company_network(_, _, _, _)

\* _get_network_branches: what follows the recursive call r for the
\* appointment to a related company: the graphs are composed and the tie
\* enforced, or, when r returned None, the warning is built, which reads
\* g.nodes['officer_id']
ComposeRelated(f, r, officer_id, appointment, kw) ==
    IF r.exc # NoExc
    THEN [f EXCEPT !.exc = r.exc, !.requests = r.requests]
    ELSE IF r.none
    THEN [f EXCEPT !.requests = r.requests,
                   !.exc = IF OfficerIdLiteral \in NodeIds(f.g)
                           THEN NoExc ELSE "KeyError"]
    ELSE IF ~ is_bipartite(compose(f.g, r.g))
    THEN [f EXCEPT !.requests = r.requests, !.g = compose(f.g, r.g),
                   !.exc = "AssertionError"]
    ELSE IF ~ is_connected(compose(f.g, r.g)) /\ kw.enforce_missing_ties
    THEN [f EXCEPT !.requests = r.requests,
                   !.g = add_edge(compose(f.g, r.g), appointment[1],
                                  officer_id, Some(appointment[2]))]
    ELSE [f EXCEPT !.requests = r.requests, !.g = compose(f.g, r.g)]

\* the for loop of _get_network_branches from the i-th appointment on: the
\* recursive call has branches - 1, the default include_officers and the
\* default include_edge_data of _get_network_branches
RECURSIVE FunctionBranchesLoop(_, _, _, _, _, _)
FunctionBranchesLoop(f, officer_id, appointments, i, hops, kw) ==
    IF f.exc # NoExc \/ i > Len(appointments) THEN f
    ELSE IF appointments[i][1] \in NodeIds(f.g)
    THEN FunctionBranchesLoop(f, officer_id, appointments, i + 1, hops, kw)
    ELSE FunctionBranchesLoop(
             ComposeRelated(f,
                 get_company_network(NewCall(f), appointments[i][1], hops - 1,
                     [kw EXCEPT !.include_officers = TRUE,
                                !.include_edge_data = TRUE]),
                 officer_id, appointments[i], kw),
             officer_id, appointments, i + 1, hops, kw)

\* get_company_network: `if branches:` and the call of _get_network_branches
FunctionBranchesIf(f, appointments, officer_id, hops, kw) ==
    IF f.exc # NoExc \/ hops = 0 THEN f
    ELSE FunctionBranchesLoop(f, officer_id, appointments, 1, hops, kw)

\* get_company_network: the edge and the branches of one officer, with the
\* appointments of q
FunctionOfficerTies(q, officer_id, company_id, hops, kw) ==
    FunctionBranchesIf(
        FunctionEdge(q.s, FunctionAppointments(q.v), officer_id, company_id,
                     kw),
        FunctionAppointments(q.v), officer_id, hops, kw)

\* get_company_network: the body of the for loop over the officers; the
\* appointments are queried `if branches or include_edge_data`
FunctionOfficer(f, officer_data, company_id, hops, kw) ==
    FunctionOfficerTies(
        IF hops # 0 \/ kw.include_edge_data
        THEN get_officer_appointments_data(
                 FunctionOfficerNode(f, officer_data), officer_data.id)
        ELSE [s |-> FunctionOfficerNode(f, officer_data), v |-> NotFound],
        officer_data.id, company_id, hops, kw)

RECURSIVE FunctionOfficersLoop(_, _, _, _, _, _)
FunctionOfficersLoop(f, officers, i, company_id, hops, kw) ==
    IF f.exc # NoExc \/ i > Len(officers) THEN f
    ELSE FunctionOfficersLoop(
             FunctionOfficer(f, officers[i], company_id, hops, kw),
             officers, i + 1, company_id, hops, kw)

\* the generator of officers ends, with its exception if it has one
EndOfficers(f, exc) ==
    IF f.exc # NoExc \/ exc = NoExc THEN f ELSE Raise(f, exc)

\* get_company_network: the for loop over get_company_officers(company_id)
FunctionOfficers(y, company_id, hops, kw) ==
    EndOfficers(FunctionOfficersLoop(y.s, y.v.v, 1, company_id, hops, kw),
                y.v.exc)

\* get_company_network: `if include_officers and ("links" in company and
\* "officers" in company["links"])`
FunctionIncludeOfficers(f, company, company_id, hops, kw) ==
    IF f.exc # NoExc \/ f.none THEN f
    ELSE IF kw.include_officers /\ company.officers_link
    THEN FunctionOfficers(
             get_company_officers(f, company_id,
                 kw.exclude_resigned_board_members, NotFound),
             company_id, hops, kw)
    ELSE f

\* get_company_network(company_id, branches, include_officers=...,
\* include_edge_data=..., **kwargs), called with the requests and the clock
\* of f
get_company_network(f, company_id, hops, kw) ==
    FunctionIncludeOfficers(
        FunctionCompanyNode(
            get_company_data(f, company_id, kw.exclude_non_active_companies),
            company_id),
        Reply("company", stringify_company_id(company_id)),
        company_id, hops, kw)

\* the keyword arguments the function is called with
FunctionKwargs ==
    [include_officers : BOOLEAN, include_edge_data : BOOLEAN,
     enforce_missing_ties : BOOLEAN, exclude_non_active_companies : BOOLEAN,
     exclude_resigned_board_members : BOOLEAN]

\* the identifiers the function is called with
FunctionRootIds == RootIds \cup {Co("1")}

\* the call made and how it ended
Crawled(company_id, hops, kw, f) ==
    [done |-> TRUE, company_id |-> company_id, branches |-> hops, kw |-> kw,
     exc |-> f.exc, none |-> f.none, g |-> f.g, requests |-> f.requests]

\* get_company_network is called once on the registry
GetCompanyNetwork ==
    /\ ~ crawled.done
    /\ \E company_id \in FunctionRootIds, hops \in 0..MaxFunctionBranches,
          kw \in FunctionKwargs :
          crawled' = Crawled(company_id, hops, kw,
              get_company_network(
                  [g |-> Graph, none |-> FALSE, exc |-> NoExc,
                   requests |-> <<>>, clock |-> clock],
                  company_id, hops, kw))
    /\ UNCHANGED <<client, transport, normaliser, filtered, crawling,
                   executed, serialiser, sequencer>>

\* filter_active_board_members(g) for the Graph the function
\* get_company_network returned
FilterCompanyNetwork ==
    /\ ~ filtered.done
    /\ crawled.done /\ crawled.exc = NoExc /\ ~ crawled.none
    /\ filtered' = filter_active_board_members(crawled.g, clock)
    /\ UNCHANGED <<client, transport, normaliser, serialiser, sequencer,
                   crawled, crawling, executed>>

NextFunction == GetCompanyNetwork \/ FilterCompanyNetwork

InitFunction == StartOn(RegistriesOfFunction)

SpecFunction == InitFunction /\ [][NextFunction]_vars

---------------------------------------------------------------------------
(* get_network followed statement by statement.  The call in progress is   *)
(* a stack of _get_network frames, innermost last; a step runs the         *)
(* statements of the innermost frame up to its next loop pass, call or     *)
(* return.  m is [s |-> the client's state, stack |-> the frames,          *)
(* expansions |-> the number of _get_network calls entered so far].        *)

\* the most _get_network frames the stack holds
MaxFrames == 4

\* _get_network(company_id, branch_iterator) is called: none of its body
\* has run.  loop names the for loop a branches loop returns to, persons
\* what the generator of that loop yields, i the pass it is in; keys are
\* the keys of the cached dict of person_id and j the pass over them
CrawlFrame(company_id, branch_iterator) ==
    [company_id |-> company_id, branch_iterator |-> branch_iterator,
     pc |-> "enter", loop |-> "", persons |-> NoYields, i |-> 0,
     person_id |-> <<>>, keys |-> <<>>, j |-> 0]

Innermost(m) == m.stack[Len(m.stack)]
SetTop(m, f) == [m EXCEPT !.stack[Len(m.stack)] = f]
Pop(m) == [m EXCEPT !.stack = SubSeq(@, 1, Len(@) - 1)]
Push(m, f) == [m EXCEPT !.stack = Append(@, f)]
At(m, s) == [m EXCEPT !.s = s]

\* the statements F that follow on the value x of an expression: x is
\* computed once, and F reads the value
Then1(x, F(_)) == CHOOSE r \in {F(v) : v \in {x}} : TRUE
Then2(x, y, F(_, _)) == CHOOSE r \in {F(v, w) : v \in {x}, w \in {y}} : TRUE

\* _get_network returns: self._query_end is set for the root
CrawlReturn(m) == Pop(At(m, SetQueryEnd(m.s, Innermost(m).company_id)))

\* the for loop of _include_controllers begins over what the generator
\* yields
CrawlControllersYielded(m, controllers) ==
    SetTop(At(m, controllers.s),
           [Innermost(m) EXCEPT !.pc = "controllers", !.persons = controllers.v,
                          !.i = 1])

\* _include_controllers after its query
CrawlControllersQueried(m, q) ==
    IF q.s.exc # NoExc THEN At(m, q.s)
    ELSE Then2(m,
               get_significant_controllers(
                   SetCompanyInfo(q, Innermost(m).company_id,
                                  "significant_controllers"),
                   Innermost(m).company_id, q.v,
                   q.s.exclude_ceased_controllers),
               CrawlControllersYielded)

\* _get_network: the if statement on include_significant_controllers, and
\* the return when it is not set
CrawlControllersIf(m) ==
    IF m.s.include_significant_controllers
    THEN Then2(m,
               get_significant_controllers_data(m.s, Innermost(m).company_id),
               CrawlControllersQueried)
    ELSE CrawlReturn(m)

\* the for loop of _include_officers begins over what the generator yields
CrawlOfficersYielded(m, officers) ==
    SetTop(At(m, officers.s),
           [Innermost(m) EXCEPT !.pc = "officers", !.persons = officers.v, !.i = 1])

\* _include_officers after its query
CrawlOfficersQueried(m, q) ==
    IF q.s.exc # NoExc THEN At(m, q.s)
    ELSE Then2(m,
               get_company_officers(
                   SetCompanyInfo(q, Innermost(m).company_id, "officers"),
                   Innermost(m).company_id,
                   q.s.exclude_resigned_board_members, q.v),
               CrawlOfficersYielded)

\* _get_network: the if statement on include_officers and the officers link
CrawlOfficersIf(m, company_data) ==
    IF m.s.include_officers /\ company_data.officers_link
    THEN Then2(m, get_company_officers_data(m.s, Innermost(m).company_id),
               CrawlOfficersQueried)
    ELSE CrawlControllersIf(m)

\* _get_network after get_company_data: it returns for no record, and adds
\* the company's node for one
CrawlEntered(m, q) ==
    IF q.s.exc # NoExc THEN At(m, q.s)
    ELSE IF q.v.st # "ok" THEN Pop(At(m, q.s))
    ELSE IF get_company_category(Innermost(m).company_id).exc # NoExc
    THEN At(m, Raise(q.s, get_company_category(Innermost(m).company_id).exc))
    ELSE Then2(At(m, AddCompanyNode(q, Innermost(m).company_id)), q.v,
               CrawlOfficersIf)

\* _get_network, first statement: the root takes the place of a company_id
\* that is None or the empty string
CrawlRooted(m) ==
    SetTop(m, [Innermost(m) EXCEPT
                  !.company_id = IF @ = <<>> THEN m.s._root_id ELSE @])

\* _get_network from its assert statement to the first pass of a loop, or
\* to its return
CrawlAsserted(m) ==
    IF Innermost(m).company_id = <<>>
    THEN At(m, Raise(Invoked(m.s, Innermost(m).branch_iterator),
                     "AssertionError"))
    ELSE Then2([m EXCEPT !.expansions = @ + 1],
               get_company_data(
                   SetQueryStart(Invoked(m.s, Innermost(m).branch_iterator),
                                 Innermost(m).company_id),
                   Innermost(m).company_id, m.s.exclude_non_active_companies),
               CrawlEntered)

\* _get_network from its first statement to the first pass of a loop, or to
\* its return
CrawlEnter(m) == CrawlAsserted(CrawlRooted(m))

\* the next pass of the for loop over the persons
NextPerson(m) == SetTop(m, [Innermost(m) EXCEPT !.pc = Innermost(m).loop, !.i = @ + 1])

\* _get_network_branches is called for person_id: the for loop over the
\* cached dict begins, or the KeyError of a person without one is caught
CrawlBranches(m, person_id) ==
    IF person_id \notin DOMAIN m.s._officer_appointments_cache
    THEN NextPerson(m)
    ELSE SetTop(m, [Innermost(m) EXCEPT
                       !.pc = "branches", !.person_id = person_id,
                       !.keys = DictKeys(
                           m.s._officer_appointments_cache[person_id]),
                       !.j = 1])

\* what the generator yields in the pass the innermost frame is in
CrawlYield(m) == Innermost(m).persons.v[Innermost(m).i]

\* _add_person_edge_branch, the if statement on branch_iterator
CrawlBranchOrRaise(m) ==
    IF m.s.exc # NoExc THEN m
    ELSE IF /\ 0 <= Innermost(m).branch_iterator
            /\ Innermost(m).branch_iterator < m.s.branches
    THEN CrawlBranches(m, CrawlYield(m).id)
    ELSE IF Innermost(m).branch_iterator < 0
    THEN At(m, Raise(m.s, "NegativeIntBranchException"))
    ELSE IF Innermost(m).branch_iterator > m.s.branches
    THEN At(m, Raise(m.s, "ExceededMaxBranchesException"))
    ELSE NextPerson(m)

\* _add_person_edge_branch, second statement: add_edge, on the state s
\* that the first statement leaves
CrawlEdge(m, s) ==
    At(m, AddPersonEdge(s, CrawlYield(m).id, Innermost(m).company_id,
                        CrawlYield(m)))

\* _add_person_edge_branch for what the generator yields
CrawlAddPerson(m, method_name) ==
    Then1(Then2(m,
                AddPersonUnlessNode(m.s, CrawlYield(m).id,
                                    Innermost(m).company_id, CrawlYield(m),
                                    method_name),
                CrawlEdge),
          CrawlBranchOrRaise)

\* the for loop is over: the exception that ended the generator is raised,
\* or _get_network goes on after the loop
CrawlLoopOver(m) ==
    IF Innermost(m).persons.exc # NoExc
    THEN At(m, Raise(m.s, Innermost(m).persons.exc))
    ELSE IF Innermost(m).pc = "officers" THEN CrawlControllersIf(m)
    ELSE CrawlReturn(m)

\* one pass of the for loop of _include_officers or _include_controllers
CrawlPerson(m) ==
    IF Innermost(m).i > Len(Innermost(m).persons.v) THEN CrawlLoopOver(m)
    ELSE CrawlAddPerson(
             SetTop(m, [Innermost(m) EXCEPT !.loop = Innermost(m).pc]),
             IF Innermost(m).pc = "officers" THEN "_add_officer"
             ELSE "_add_controller")

\* a _get_network_branches that crawls a related company whether or not it
\* is a node
BranchExpands_Always(s, related_company_id) == TRUE

\* _get_network_branches: the if statement on related_company_id
BranchExpands(s, related_company_id) ==
    related_company_id \notin NodeIds(TheGraph(s))

\* one pass of the for loop of _get_network_branches, up to the call of
\* _get_network; after the last pass _add_person_edge_branch returns
CrawlBranch(m) ==
    IF Innermost(m).j > Len(Innermost(m).keys) THEN NextPerson(m)
    ELSE IF BranchExpands(m.s, Innermost(m).keys[Innermost(m).j])
    THEN Push(SetTop(m, [Innermost(m) EXCEPT !.pc = "tie"]),
              CrawlFrame(Innermost(m).keys[Innermost(m).j], Innermost(m).branch_iterator + 1))
    ELSE SetTop(m, [Innermost(m) EXCEPT !.j = @ + 1])

\* _get_network_branches after the _get_network it called has returned
CrawlTie(m) ==
    SetTop(At(m, EnforceTie(m.s, Innermost(m).person_id, Innermost(m).keys[Innermost(m).j])),
           [Innermost(m) EXCEPT !.pc = "branches", !.j = @ + 1])

\* an exception leaves the innermost frame: the except KeyError clause of a
\* _get_network_branches that waits for its _get_network catches it and the
\* method returns; any other frame is left
CrawlUnwind(m) ==
    IF Innermost(m).pc = "tie" /\ m.s.exc = "KeyError"
    THEN NextPerson(At(m, Raise(m.s, NoExc)))
    ELSE Pop(m)

\* get_network up to the call of self._get_network()
CrawlBegin(s, root_id) ==
    [s |-> ResetGraphIf(AppendRun(s, stringify_company_id(root_id))),
     stack |-> <<CrawlFrame(stringify_company_id(root_id), 0)>>,
     expansions |-> 0]

\* get_network after self._get_network(): the run is filled
CrawlRecorded(s) ==
    Then1(Then1(Then1(SetKindsIdsDict(s), SetStartTime), SetEndTime),
          SetConnectedComponentsCount)

\* the call in progress, from the variables
Machine ==
    [s |-> [Self EXCEPT !.exc = crawling.exc, !.hops = crawling.hops],
     stack |-> crawling.stack, expansions |-> crawling.expansions]

\* the variables take the state a step leaves
Stepped(m) ==
    /\ Commit(m.s)
    /\ crawling' = [crawling EXCEPT !.stack = m.stack, !.exc = m.s.exc,
                                    !.hops = m.s.hops,
                                    !.expansions = m.expansions]
    /\ executed' = executed + 1
    /\ UNCHANGED <<registry, constructed, calls, generator, transport,
                   normaliser, filtered, crawled, serialiser, sequencer>>

\* the call ended: it returned self._graph or raised
Ended(s) ==
    /\ Commit(s)
    /\ crawling' = [crawling EXCEPT
                       !.pc = IF s.exc = NoExc THEN "returned" ELSE "raised",
                       !.exc = s.exc, !.hops = s.hops]
    /\ calls' = Append(calls, CallRecord("get_network", crawling.arg, s))
    /\ executed' = executed + 1
    /\ UNCHANGED <<registry, constructed, generator, transport, normaliser,
                   filtered, crawled, serialiser, sequencer>>

\* the innermost frame is at pc and nothing is being raised
Running(pc) ==
    /\ crawling.pc = "running"
    /\ crawling.stack # <<>>
    /\ crawling.exc = NoExc
    /\ crawling.stack[Len(crawling.stack)].pc = pc

\* get_network(root_id) is called on a new client
CrawlCall ==
    /\ constructed.status = "yes"
    /\ crawling.pc = "idle"
    /\ calls = <<>>
    /\ RunsCrawl(Self)
    /\ \E root_id \in RootIds :
       \E m \in {CrawlBegin(Self, root_id)} :
          /\ Commit(m.s)
          /\ crawling' = [crawling EXCEPT
                             !.pc = "running", !.arg = root_id,
                             !.stack = m.stack]
    /\ UNCHANGED <<registry, constructed, calls, generator, transport,
                   normaliser, filtered, crawled, executed, serialiser,
                   sequencer>>

\* a _get_network call runs to its first loop pass or its return
CrawlEnterStep ==
    Running("enter") /\ \E m \in {Then1(Machine, CrawlEnter)} : Stepped(m)

\* a pass of the loop over the officers
CrawlOfficerStep ==
    Running("officers") /\ \E m \in {Then1(Machine, CrawlPerson)} : Stepped(m)

\* a pass of the loop over the controllers
CrawlControllerStep ==
    Running("controllers") /\ \E m \in {Then1(Machine, CrawlPerson)} : Stepped(m)

\* a pass of the loop over the companies a person is tied to
CrawlBranchStep ==
    /\ Running("branches")
    /\ \E m \in {Then1(Machine, CrawlBranch)} :
          Len(m.stack) <= MaxFrames /\ Stepped(m)

\* the _get_network of a related company has returned
CrawlTieStep ==
    Running("tie") /\ \E m \in {Then1(Machine, CrawlTie)} : Stepped(m)

\* an exception passes a frame
CrawlUnwindStep ==
    /\ crawling.pc = "running"
    /\ crawling.stack # <<>>
    /\ crawling.exc # NoExc
    /\ \E m \in {Then1(Machine, CrawlUnwind)} : Stepped(m)

\* self._get_network() is over: get_network fills the run and returns, or
\* the exception leaves get_network
CrawlRecordStep ==
    /\ crawling.pc = "running"
    /\ crawling.stack = <<>>
    /\ \E s \in {IF crawling.exc = NoExc
                THEN Then1(Machine.s, CrawlRecorded) ELSE Machine.s} :
          Ended(s)

\* the statements of the call in progress
CrawlSteps ==
    \/ CrawlEnterStep
    \/ CrawlOfficerStep
    \/ CrawlControllerStep
    \/ CrawlBranchStep
    \/ CrawlTieStep
    \/ CrawlUnwindStep
    \/ CrawlRecordStep

NextCrawl == Construct \/ SetResetCache \/ CrawlCall \/ CrawlSteps

\* the registries a crawl is followed on, one with a blank company_number
InitCrawl == StartOn(RegistriesRefusing \cup {RegistryBlank})

\* the interpreter runs a step of the call in progress
RunsOn == crawling.pc = "running" /\ executed' = executed + 1

\* the interpreter goes on with a call in progress: the steps of NextCrawl
\* that count one more are those of CrawlSteps
SpecCrawl == InitCrawl /\ [][NextCrawl]_vars /\ WF_executed(RunsOn)

---------------------------------------------------------------------------
(* The claims.                                                             *)

\* the client's graph
TheClientGraph == heap[_graph]

\* the nodes of g adjacent to n
Neighbours(g, n) == {m \in NodeIds(g) : m # n /\ {m, n} \in EdgeIds(g)}

\* every node carries bipartite 0 or 1 and every edge joins a 0 and a 1
IsBipartite(g) ==
    /\ \A n \in NodeIds(g) : g.nodes[n].bipartite \in {0, 1}
    /\ \A e \in EdgeIds(g) :
          \E u, v \in e : g.nodes[u].bipartite = 0 /\ g.nodes[v].bipartite = 1

\* C1: whenever a get_network call returns, every node of the graph carries
\* a bipartite value of 0 or 1 and every edge joins a company (0) and a
\* person (1).  The second call of a client that keeps its graph returns a
\* graph in which enforce_missing_ties left a node without attributes.
C1_BipartiteOnReturn ==
    \A i \in 1..Len(calls) :
        (calls[i].op = "get_network" /\ calls[i].exc = NoExc)
            => IsBipartite(calls[i].graph)

\* C2: __init__ raises NegativeIntBranchException exactly for a branches
\* that is negative or no int, and then no request has been sent and no
\* graph made; 0 and the positive ints are accepted and stored.
C2_NegativeBranchesRaise ==
    constructed.status # "no" =>
        LET b == constructed.branches[1]
        IN  IF b.type = "int" /\ b.value >= 0
            THEN constructed.status = "yes" /\ branches = b.value
            ELSE /\ constructed.status = "raised"
                 /\ constructed.exc = "NegativeIntBranchException"
                 /\ requests = <<>>
                 /\ heap = <<>>

\* a client was constructed with branches = -1 and the constructor raised
C2_Witness ==
    /\ constructed.status = "raised"
    /\ constructed.branches = Some([type |-> "int", value |-> -1])

\* the client as __init__ left it, with the options it has now
FreshClient ==
    [Self EXCEPT !._root_id = None, !._graph = 1, !.heap = <<Graph>>,
                 !._officer_appointments_cache = <<>>, !._runs = <<>>,
                 !._query_start = None, !._query_end = None, !.clock = 10,
                 !.requests = <<>>]

\* the same with the reset_cache the first call was made under
FreshClientOfCall == [FreshClient EXCEPT !._reset_cache = calls[1].reset_cache]

\* the root ids of the run ledger, in order: tuple(self._root_node_ids)
RootNodeIds(runs) == [i \in 1..Len(runs) |-> runs[i].root_id]

\* the company record of id is served and get_company_data does not drop it
Fetchable(id) ==
    /\ id \in DOMAIN registry.company
    /\ registry.company[id].st = "ok"
    /\ ~ (/\ exclude_non_active_companies
          /\ registry.company[id].company_status # None
          /\ registry.company[id].company_status[1] # "active")

\* what was yielded up to the i-th seed is still in what was yielded for
\* the next seed: same Graph object, nodes, edges and cached officers kept
KeptBetweenSeeds(y, i) ==
    /\ y[i].ref = y[i + 1].ref
    /\ NodeIds(y[i].graph) \subseteq NodeIds(y[i + 1].graph)
    /\ EdgeIds(y[i].graph) \subseteq EdgeIds(y[i + 1].graph)
    /\ DOMAIN y[i].cache \subseteq DOMAIN y[i + 1].cache

\* the composed graph holds what every seed's crawl yielded and the root of
\* every seed that has a record
UnionOfSeeds ==
    /\ \A i \in 1..(Len(generator.yielded) - 1) :
          KeptBetweenSeeds(generator.yielded, i)
    /\ \A i \in 1..Len(generator.yielded) :
          /\ NodeIds(generator.yielded[i].graph) \subseteq NodeIds(TheClientGraph)
          /\ EdgeIds(generator.yielded[i].graph) \subseteq EdgeIds(TheClientGraph)
          /\ Fetchable(stringify_company_id(generator.root_ids[i]))
                => stringify_company_id(generator.root_ids[i])
                       \in NodeIds(TheClientGraph)

IsComposedCall(op) == calls # <<>> /\ calls[1].op = op

\* C3 as stated: on a client built with compose_queried_networks=True and
\* every other option at its default (reset_cache=True among them),
\* get_composed_network keeps the graph and the cache between seeds, and
\* its final graph is the union of the seeds' crawls.
C3_ComposedDefaultsKeepGraph ==
    (/\ IsComposedCall("get_composed_network")
     /\ compose_queried_networks /\ calls[1].reset_cache
     /\ branches = 0 /\ include_officers
     /\ ~ include_significant_controllers /\ ~ enforce_missing_ties
     /\ ~ exclude_non_active_companies /\ ~ exclude_resigned_board_members
     /\ ~ exclude_ceased_controllers)
        => UnionOfSeeds

\* C3, amended: on a client built with compose_queried_networks=True and
\* reset_cache=False, whatever the other options, get_composed_network
\* keeps the Graph object, its nodes and edges and the cached officers from
\* each seed to the next, and the final graph holds every seed's crawl.
C3_ComposedKeepsGraph ==
    (/\ IsComposedCall("get_composed_network")
     /\ compose_queried_networks /\ ~ calls[1].reset_cache)
        => UnionOfSeeds

\* get_composed_network over two different seeds that both have a record
\* returned, on a client that composes and does not reset: both crawls
\* added officers
C3_Witness ==
    /\ IsComposedCall("get_composed_network")
    /\ compose_queried_networks /\ ~ calls[1].reset_cache
    /\ calls[1].exc = NoExc
    /\ Len(generator.yielded) = 2
    /\ generator.root_ids[1] # generator.root_ids[2]
    /\ GraphLen(generator.yielded[1].graph) > 1
    /\ GraphLen(TheClientGraph) > GraphLen(generator.yielded[1].graph)

\* the graph and the ledger of state s equal the client's
SameGraphAndRoots(s) ==
    /\ NodeIds(TheGraph(s)) = NodeIds(TheClientGraph)
    /\ EdgeIds(TheGraph(s)) = EdgeIds(TheClientGraph)
    /\ RootNodeIds(s._runs) = RootNodeIds(_runs)
    /\ s.exc = calls[1].exc

\* C4: async_get_composed_network and get_composed_network, each run on a
\* new client with the same options over the same seeds and registry, end
\* with graphs of the same nodes and the same edges and with ledgers of
\* the same root ids (and raise alike).
C4_AsyncComposedEqualsSync ==
    /\ IsComposedCall("async_get_composed_network")
          => SameGraphAndRoots(
                 get_composed_network(FreshClientOfCall, calls[1].arg).s)
    /\ IsComposedCall("get_composed_network")
          => SameGraphAndRoots(
                 async_get_composed_network(FreshClientOfCall, calls[1].arg).s)

\* async_get_composed_network returned after crawling two different seeds
\* on a client that accumulates, and the graph holds more than the first
\* seed's crawl
C4_Witness ==
    /\ IsComposedCall("async_get_composed_network")
    /\ calls[1].exc = NoExc
    /\ compose_queried_networks /\ ~ calls[1].reset_cache
    /\ Len(generator.yielded) = 2
    /\ generator.root_ids[1] # generator.root_ids[2]
    /\ GraphLen(TheClientGraph) > GraphLen(generator.yielded[1].graph)
    /\ GraphLen(generator.yielded[1].graph) > 1

\* the requests sent during the i-th call
SentIn(i) ==
    SubSeq(requests, (IF i = 1 THEN 0 ELSE calls[i - 1].sent) + 1,
           calls[i].sent)

\* C5: on a client with reset_cache=True and compose_queried_networks=False
\* two get_network calls for the same root end alike: the second returns a
\* new Graph object with the same nodes and the same edges as the first,
\* after sending the same requests in the same order.
C5_GetNetworkTwice ==
    (/\ Len(calls) = 2
     /\ calls[1].op = "get_network" /\ calls[2].op = "get_network"
     /\ calls[1].reset_cache /\ calls[2].reset_cache
     /\ ~ compose_queried_networks
     /\ stringify_company_id(calls[1].arg) = stringify_company_id(calls[2].arg))
        => /\ calls[1].exc = calls[2].exc
           /\ NodeIds(calls[1].graph) = NodeIds(calls[2].graph)
           /\ EdgeIds(calls[1].graph) = EdgeIds(calls[2].graph)
           /\ calls[1].exc = NoExc => calls[1].ret # calls[2].ret
           /\ SentIn(1) = SentIn(2)

\* the second of two get_network calls for one root returned a graph of
\* several nodes on a client that resets and crawls two hops
C5_Witness ==
    /\ Len(calls) = 2
    /\ calls[1].op = "get_network" /\ calls[2].op = "get_network"
    /\ calls[1].reset_cache /\ calls[2].reset_cache
    /\ ~ compose_queried_networks
    /\ calls[1].arg = calls[2].arg
    /\ calls[2].exc = NoExc
    /\ branches = 2
    /\ GraphLen(calls[2].graph) > 3

\* the generator ran to its end: no seed is left and no crawl raised
Exhausted(g) ==
    /\ g.kind \in {"networks_generator", "async_networks_generator"}
    /\ ~ g.composed_query
    /\ g.exc = NoExc
    /\ g.next > Len(g.root_ids)

\* the kinds dict of g, as get_network records it
KindsOf(g) == get_kinds_ids_dict(g, COMPANY_NETWORK_KINDS).v

\* C6: when networks_generator or async_networks_generator has run to its
\* end over seeds s1..sn on a new client whose reset_cache or
\* compose_queried_networks is true, the ledger holds n Run Records whose
\* root ids are the normalized s1..sn in order, n graphs were yielded, the
\* i-th Run Record describes the i-th yielded graph, and on a client that
\* resets the i-th yielded graph is the graph of a crawl of si alone.
C6_GeneratorOrder ==
    (/\ Exhausted(generator)
     /\ \A i \in 1..Len(generator.yielded) :
           generator.yielded[i].reset_cache \/ compose_queried_networks)
        => /\ Len(_runs) = Len(generator.root_ids)
           /\ Len(generator.yielded) = Len(generator.root_ids)
           /\ \A i \in 1..Len(generator.root_ids) :
                 /\ _runs[i].root_id =
                        stringify_company_id(generator.root_ids[i])
                 /\ _runs[i].kinds_ids_dict =
                        KindsOf(generator.yielded[i].graph)
                 /\ generator.yielded[i].reset_cache =>
                        generator.yielded[i].graph =
                            TheGraph(get_network(FreshClient,
                                                 generator.root_ids[i]))

\* an async_networks_generator ran to its end over two different seeds, the
\* first written without its leading zeros, and yielded two graphs that
\* differ
C6_Witness ==
    /\ Exhausted(generator)
    /\ generator.kind = "async_networks_generator"
    /\ \A i \in 1..Len(generator.yielded) : generator.yielded[i].reset_cache
    /\ Len(generator.root_ids) = 2
    /\ generator.root_ids[1] = <<"1">>
    /\ generator.root_ids[2] = Co("2")
    /\ Len(generator.yielded) = 2
    /\ NodeIds(generator.yielded[1].graph) # NodeIds(generator.yielded[2].graph)
    /\ GraphLen(generator.yielded[1].graph) > 1

\* the nodes of g of a kind
NodesOfKind(g, kind) == {n \in NodeIds(g) : g.nodes[n].kind = kind}

\* the entries of a company's listing in the registry
ListedIn(endpoint, id) ==
    IF id \in DOMAIN registry[endpoint]
    THEN {registry[endpoint][id].items[k] :
              k \in 1..Len(registry[endpoint][id].items)}
    ELSE {}

\* the first call on the client was a get_network that returned a graph
\* holding the root
FirstCrawlReturned ==
    /\ Len(calls) = 1
    /\ calls[1].op = "get_network"
    /\ calls[1].exc = NoExc
    /\ stringify_company_id(calls[1].arg) \in NodeIds(calls[1].graph)

FirstRoot == stringify_company_id(calls[1].arg)

\* the officers a branches=0 crawl of the root is to add
ExpectedOfficers ==
    {o.id : o \in {x \in ListedIn("officers", FirstRoot) :
                      ~ (/\ exclude_resigned_board_members
                         /\ x.resigned_on # None
                         /\ x.resigned_on[1] < clock)}}

\* C7: after a branches=0 crawl of a root that has an officers link, the
\* officer nodes are exactly the officers of the root's listing, without
\* those whose resigned_on lies before today when
\* exclude_resigned_board_members is set; each has one edge, to the root.
C7_RootOfficers ==
    (/\ FirstCrawlReturned
     /\ branches = 0 /\ include_officers
     /\ registry.company[FirstRoot].officers_link)
        => /\ NodesOfKind(calls[1].graph, "officer") = ExpectedOfficers
           /\ \A o \in ExpectedOfficers :
                 Neighbours(calls[1].graph, o) = {FirstRoot}

\* a branches=0 crawl that excludes resigned members returned the root
\* with its sitting officer and without its resigned one
C7_Witness ==
    /\ FirstCrawlReturned
    /\ branches = 0 /\ include_officers /\ exclude_resigned_board_members
    /\ registry = RegistryInterlock
    /\ FirstRoot = Co("1")
    /\ O1 \in NodeIds(calls[1].graph)
    /\ O2 \notin NodeIds(calls[1].graph)

\* the controllers of a company that have not ceased before today
ExpectedControllers(id) ==
    {k.id : k \in {x \in ListedIn("controllers", id) :
                      ~ (x.ceased_on # None /\ x.ceased_on[1] < clock)}}

\* C8: with include_significant_controllers and exclude_ceased_controllers
\* set, the controller nodes adjacent to each company of the graph are
\* exactly its listed controllers that have no ceased_on before today.
\* The crawl adds no controller at all.
C8_NonCeasedControllersAdded ==
    (/\ FirstCrawlReturned
     /\ include_significant_controllers /\ exclude_ceased_controllers)
        => \A c \in NodesOfKind(calls[1].graph, "company") :
              Neighbours(calls[1].graph, c)
                  \cap NodesOfKind(calls[1].graph, "controller")
                  = ExpectedControllers(c)

\* C9: when the first get_network of a client with enforce_missing_ties
\* returns a graph holding the root, the graph is connected.  A KeyError
\* inside the crawl of a related company ends the person's branch loop
\* before the tie is enforced, and the company stays apart.
C9_EnforcedTiesConnect ==
    (FirstCrawlReturned /\ enforce_missing_ties)
        => number_connected_components(calls[1].graph) = 1

\* the graph before the i-th call
GraphBefore(i) == IF i = 1 THEN Graph ELSE calls[i - 1].graph

\* C10: a get_network whose root has no record, or whose root
\* exclude_non_active_companies drops, returns without raising and adds no
\* node, on the first call of a client and on every later call.  The first
\* such call raises AttributeError: self._query_end was never set.
C10_AbsentRootReturns ==
    \A i \in 1..Len(calls) :
        (/\ calls[i].op = "get_network"
         /\ ~ Fetchable(stringify_company_id(calls[i].arg)))
            => /\ calls[i].exc = NoExc
               /\ NodeIds(calls[i].graph) \subseteq NodeIds(GraphBefore(i))

\* a company number, as opposed to an officer or controller id
IsCompanyNumber(n) == Len(n) = 8

\* C11: the client's graph never holds a node for a company whose record
\* the registry does not serve or exclude_non_active_companies drops: every
\* company-side node has kind "company" and the name of its fetched
\* record.  With enforce_missing_ties the enforced edge creates such a node,
\* without any attribute.
C11_CompanyNodesFetched ==
    constructed.status = "yes" =>
        \A n \in NodeIds(TheClientGraph) :
            IsCompanyNumber(n) =>
                /\ Fetchable(n)
                /\ TheClientGraph.nodes[n].kind = "company"
                /\ TheClientGraph.nodes[n].name = registry.company[n].company_name

\* the officers of the graph whose appointments query returns nothing
WithoutAppointments(g) ==
    {o \in NodesOfKind(g, "officer") : o \notin DOMAIN registry.appointments}

\* every entry of every officers listing carries a str name
AllOfficersNamed ==
    \A c \in DOMAIN registry.officers :
        \A x \in ListedIn("officers", c) : x.name.st = "str"

\* the node of officer o holds no appointments data and the name of a
\* listing entry, its edges carry the listing entries of its companies, and
\* the cache holds nothing for it
AddedFromListing(g, o) ==
    /\ g.nodes[o].data = [tag |-> "appointments", reply |-> NotFound]
    /\ g.nodes[o].bipartite = 1
    /\ o \notin DOMAIN _officer_appointments_cache
    /\ Neighbours(g, o) # {}
    /\ \A c \in Neighbours(g, o) :
          \E x \in ListedIn("officers", c) :
              x.id = o /\ g.edges[{c, o}] = Some(x)
    /\ \E c \in Neighbours(g, o) :
          \E x \in ListedIn("officers", c) :
              x.id = o /\ g.nodes[o].name = x.name.s

\* C12: when the appointments query of an officer returns nothing the
\* crawl goes on and get_network returns: the officer's node has data null
\* and the name of the company's listing entry, its edge carries the
\* listing entry, the cache has no entry for the officer, no company is
\* reached through the officer, and the root's other officers are added
\* too.  Stated for listings whose entries carry a name, on crawls without
\* enforced ties.
C12_MissingAppointmentsAbsorbed ==
    (/\ Len(calls) = 1 /\ calls[1].op = "get_network"
     /\ Fetchable(FirstRoot)
     /\ AllOfficersNamed /\ ~ enforce_missing_ties)
        => /\ calls[1].exc = NoExc
           /\ \A o \in WithoutAppointments(calls[1].graph) :
                 AddedFromListing(calls[1].graph, o)
           /\ (include_officers /\ registry.company[FirstRoot].officers_link)
                 => ExpectedOfficers \subseteq NodeIds(calls[1].graph)

\* a one-hop crawl of the company whose two officers have no appointments
\* page returned with both officers in the graph
C12_Witness ==
    /\ FirstCrawlReturned
    /\ registry = RegistryInterlock /\ FirstRoot = Co("2")
    /\ branches = 1 /\ include_officers
    /\ WithoutAppointments(calls[1].graph) = {O3, O4}
    /\ Neighbours(calls[1].graph, O3) = {Co("2")}


\* the companies_house_query calls made so far, in progress or ended
AllQueries == frames \o returns

\* the ended calls, the paginated one last
EndedQueries == {returns[n] : n \in 1..Len(returns)}

\* the statuses the attempts of call f got
StatusesOf(f) == {f.attempts[k].status : k \in 1..Len(f.attempts)}

\* C13: the attempt of a query that gets status 401 or 403 is its last: no
\* time.sleep follows it, and the call ends at once by raising
\* CompaniesHousePermissionError, returning no value.
C13_PermissionErrorAtOnce ==
    \A n \in 1..Len(AllQueries) :
        \A k \in 1..Len(AllQueries[n].attempts) :
            AllQueries[n].attempts[k].status \in {401, 403} =>
                /\ k = Len(AllQueries[n].attempts)
                /\ AllQueries[n].attempts[k].slept = 0
                /\ AllQueries[n].pc = "end"
                /\ AllQueries[n].exc = "CompaniesHousePermissionError"
                /\ AllQueries[n].v = NotFound

\* a query raised the permission error for a 401 that followed a retried 502
C13_Witness ==
    \E f \in EndedQueries :
        /\ f.exc = "CompaniesHousePermissionError"
        /\ Len(f.attempts) = 2
        /\ f.attempts[1].status = 502
        /\ f.attempts[2].status = 401

\* C14: the attempt of a query that gets status 404 is its last, whatever
\* max_trials >= 1 is: no time.sleep follows it and the call returns None
\* without raising.
C14_NotFoundReturnsNone ==
    \A n \in 1..Len(AllQueries) :
        \A k \in 1..Len(AllQueries[n].attempts) :
            AllQueries[n].attempts[k].status = 404 =>
                /\ k = Len(AllQueries[n].attempts)
                /\ AllQueries[n].attempts[k].slept = 0
                /\ AllQueries[n].pc = "end"
                /\ AllQueries[n].exc = NoExc
                /\ AllQueries[n].v = NotFound

\* a query called with max_trials = 1 returned None for a 404
C14_Witness ==
    \E f \in EndedQueries :
        /\ f.max_trials = 1
        /\ f.attempts = <<[status |-> 404, slept |-> 0]>>
        /\ f.exc = NoExc /\ f.v = NotFound

\* C15: a query whose attempts all got status 500 ends only after
\* max_trials attempts, and then by returning None, not by raising.  With
\* max_trials below 3 the call raises Exception; with max_trials above 3 it
\* returns None at its third attempt.
C15_ServerErrorRetriedThenNone ==
    \A f \in EndedQueries :
        (f.pagination /\ StatusesOf(f) = {500}) =>
            /\ f.exc = NoExc /\ f.v = NotFound
            /\ Len(f.attempts) = f.max_trials

\* the attempts of f all got a status that the loop neither returns nor
\* raises for
AllRetried(f) == f.attempts # <<>> /\ StatusesOf(f) \subseteq {429, 502}

\* C16: while the attempts of a query all get 502 or a status outside 200,
\* 401, 403, 404 and 500, each is followed by a time.sleep and a further
\* attempt, and after max_trials attempts the call raises the failure
\* Exception, returning neither None nor a parsed value.
C16_RetriedThenFailed ==
    \A n \in 1..Len(AllQueries) :
        AllRetried(AllQueries[n]) =>
            /\ \A k \in 1..Len(AllQueries[n].attempts) :
                  AllQueries[n].attempts[k].slept >= 1
            /\ Len(AllQueries[n].attempts) <= AllQueries[n].max_trials
            /\ AllQueries[n].pc \in {"while", "end"}
            /\ AllQueries[n].pc = "end" =>
                  /\ AllQueries[n].exc = "Exception"
                  /\ Len(AllQueries[n].attempts) = AllQueries[n].max_trials

\* a query called with max_trials = 3 raised Exception after a 502, a 429
\* and a 502
C16_Witness ==
    \E f \in EndedQueries :
        /\ f.max_trials = 3
        /\ f.exc = "Exception"
        /\ Len(f.attempts) = 3
        /\ f.attempts[1].status = 502
        /\ f.attempts[2].status = 429
        /\ f.attempts[3].status = 502

\* the pages of f were all fetched: none is None, none is malformed
AllPagesFetched(f) ==
    \A k \in 1..Len(f.paginated_responses) :
        /\ f.paginated_responses[k].st = "ok"
        /\ f.paginated_responses[k].items.st = "list"

\* C17: when the first page of a listing reports more results than its
\* items_per_page and every follow-up query succeeds, the merged items are
\* the items 0..total-1 of the listing, each once and in order.  With an
\* items_per_page below 50 the follow-up queries start at index 50.
C17_PagesCoverListing ==
    \A f \in EndedQueries :
        (/\ f.pagination /\ f.exc = NoExc
         /\ Len(f.paginated_responses) > 1
         /\ AllPagesFetched(f))
            => f.v.items = ItemsList(ItemsBetween(0, resource.total))

\* the items of the well-formed pages of queries, in order
RECURSIVE ItemsOfPages(_)
ItemsOfPages(queries) ==
    IF queries = <<>> THEN <<>>
    ELSE (IF queries[1].st = "ok" /\ queries[1].items.st = "list"
          THEN queries[1].items.v ELSE <<>>)
         \o ItemsOfPages(Tail(queries))

\* C18: the merge of the pages of a paginated query does not raise: a page
\* with a null "items" adds nothing, and the result holds the items of all
\* other pages.  The merge raises KeyError in the warning it logs for such
\* a page.
C18_MalformedPageSkipped ==
    \A f \in EndedQueries :
        (/\ f.pagination
         /\ Len(f.paginated_responses) > 1
         /\ f.i = f.remaining_queries)
            => /\ f.exc = NoExc
               /\ f.v.items = ItemsList(ItemsOfPages(f.paginated_responses))


\* r is s when s is empty or has 8 characters or more, and otherwise the 8
\* characters that end with s and begin with "0"s only
PaddedForm(s, r) ==
    IF s = <<>> \/ Len(s) >= 8 THEN r = s
    ELSE /\ Len(r) = 8
         /\ \A i \in 1..8 :
               r[i] = IF i <= 8 - Len(s) THEN "0" ELSE s[i - (8 - Len(s))]

\* the decimal forms without a leading zero, among the str given
DecimalStrs ==
    {s \in GivenStrs : isdigit(s) /\ (Len(s) > 1 => s[1] # "0")}

\* C19: stringify_company_id returns '' for '', a str of 8 characters or
\* more as it is, and a shorter one padded on the left with "0" to 8
\* characters; for an int it returns what it returns for the str of the
\* int's decimal digits (after "-" for a negative int).
C19_PaddedToEight ==
    normalised # <<>> =>
        /\ given.type = "str" => PaddedForm(given.s, normalised[1])
        /\ given.type = "int" =>
              \A s \in DecimalStrs :
                  /\ ParseInt(s) = given.n =>
                        /\ PaddedForm(s, normalised[1])
                        /\ normalised[1] = StringifyCompanyId(PyStr(s))
                  /\ (given.n < 0 /\ ParseInt(s) = 0 - given.n) =>
                        PaddedForm(<<"-">> \o s, normalised[1])

\* stringify_company_id(877987) returned "00877987"
C19_Witness ==
    /\ given = PyInt(877987)
    /\ normalised = <<<<"0", "0", "8", "7", "7", "9", "8", "7">>>>

\* C20: stringify_company_id applied to its own result returns that result,
\* for an int or a str of any length, the empty str included.
C20_Idempotent ==
    \A k \in 2..Len(normalised) : normalised[k] = normalised[1]

\* stringify_company_id("1C") returned "0000001C", and returned it again for
\* "0000001C"
C20_Witness ==
    /\ given = PyStr(<<"1", "C">>)
    /\ normalised = <<<<"0", "0", "0", "0", "0", "0", "1", "C">>,
                      <<"0", "0", "0", "0", "0", "0", "1", "C">>>>


\* the letters among the characters given
Letters == {"C", "E"}

\* C21: stringify_company_id returns a str that begins with a letter as it
\* is, whatever its length.  It pads one shorter than 8 characters like
\* any other str.
C21_LetterPrefixUnchanged ==
    (/\ normalised # <<>>
     /\ given.type = "str"
     /\ given.s # <<>>
     /\ given.s[1] \in Letters)
        => normalised[1] = given.s


\* the nodes of g on the person side whose record holds a date of
\* resignation or of ceasure before today
Lapsed(g, today) ==
    {id \in NodeIds(g) :
        /\ g.nodes[id].bipartite = 1
        /\ LET d == PersonData(g.nodes[id])
           IN  d.st = "ok" /\ d.resigned_on # None /\ d.resigned_on[1] < today}

\* C22: filter_active_board_members called on a graph that get_network
\* returned, nodes with null data included, returns the graph without the
\* person-side nodes whose record's date lies before today, with every
\* other node and the edges between them; it raises nothing.  For a graph
\* with an officer or a controller whose data is None it raises TypeError.
C22_FilterRemovesLapsed ==
    filtered.done =>
        /\ filtered.exc = NoExc
        /\ filtered.v = remove_nodes_from(filtered.g,
                                          Lapsed(filtered.g, clock))


\* the nodes of a Graph with any attributes, and its edges whichever way
\* round
NodesOf(g) == {g.nodes[i] : i \in 1..Len(g.nodes)}
EdgesOf(g) ==
    {<<{g.edges[i][1], g.edges[i][2]}, g.edges[i][3]>> : i \in 1..Len(g.edges)}

\* C23: read_json_graph with additional_data=True, of the file that
\* write_json_graph wrote, returns a graph with the node ids written, each
\* of the type it had, with the node and the edge attributes written, and
\* the metadata written, datetimes and sets included; it raises nothing.
\* json_deserialise is the hook of every dict of the file: the id
\* "10547581" is read as the int 10547581.
C23_RoundTrip ==
    (read.done /\ read.additional_data) =>
        /\ read.exc = NoExc
        /\ NodesOf(read.graph) = NodesOf(written.graph)
        /\ EdgesOf(read.graph) = EdgesOf(written.graph)
        /\ read.metadata = written.additional_data


\* the sequence as the k-th call on it left it
SequenceAfter(k) ==
    IF k < Len(sequence_calls) THEN sequence_calls[k + 1].before
    ELSE organisation_sequence

\* the charity ids _get_charity_networks_generator is to crawl, in the
\* organisations' order
RECURSIVE CharitySeeds(_)
CharitySeeds(organisations) ==
    IF organisations = <<>> THEN <<>>
    ELSE (IF CrawlsCharity(organisations[1])
          THEN <<charity_id(organisations[1]).v[1]>> ELSE <<>>)
         \o CharitySeeds(Tail(organisations))

\* a crawl that returned: a graph, or nothing
CrawlReturned(crawl) == crawl.outcome \in {"Graph", "None"}

\* the run of a crawl is the crawl's: its root, and its success True
\* exactly for a graph; for a crawl that returned nothing success is False
\* and there is no count of components
RunOfCrawl(run, crawl) ==
    /\ run.root_id = crawl.charity_id
    /\ run.kind = "charity"
    /\ (run.success = Some(TRUE)) <=> (crawl.outcome = "Graph")
    /\ crawl.outcome = "None" =>
          /\ run.success = Some(FALSE)
          /\ run.connected_components_count = None

\* reading the row raises: its charity value is true and neither an int nor
\* a str of digits, or it is a seed and the row has no name for the log line
Unreadable(organisation) ==
    /\ ~ organisation._skip_charity
    /\ \/ charity_id(organisation).exc # NoExc
       \/ CrawlsCharity(organisation) /\ organisation.name = None

\* the rows before the first that cannot be read
RECURSIVE ReadableRows(_)
ReadableRows(organisations) ==
    IF organisations = <<>> \/ Unreadable(organisations[1]) THEN <<>>
    ELSE <<organisations[1]>> \o ReadableRows(Tail(organisations))

\* how a call ends whose crawls all returned: with the exception of the
\* first row that cannot be read, if there is one
EndOfRows(organisations, rows) ==
    IF Len(rows) = Len(organisations) THEN NoExc
    ELSE IF charity_id(organisations[Len(rows) + 1]).exc # NoExc
    THEN charity_id(organisations[Len(rows) + 1]).exc
    ELSE "AttributeError"

\* the crawls of a call are of the seeds among rows in their order, one run
\* appended for each, and they go on to the last of them unless a crawl
\* raised; the call raises nothing unless a crawl did or a row could not be
\* read
CharityCrawlsAmong(rows, before, after, call) ==
    /\ Len(call.crawls) <= Len(CharitySeeds(rows))
    /\ \A i \in 1..Len(call.crawls) :
          /\ call.crawls[i].charity_id = CharitySeeds(rows)[i]
          /\ CrawlReturned(call.crawls[i]) =>
                \/ i < Len(call.crawls)
                \/ /\ i = Len(CharitySeeds(rows))
                   /\ call.exc = EndOfRows(before.organisations, rows)
    /\ Len(after._charity_runs) =
          Len(before._charity_runs) + Len(call.crawls)
    /\ SubSeq(after._charity_runs, 1, Len(before._charity_runs)) =
          before._charity_runs
    /\ \A i \in 1..Len(call.crawls) :
          RunOfCrawl(after._charity_runs[Len(before._charity_runs) + i],
                     call.crawls[i])

CharityCrawlsOf(before, after, call) ==
    CharityCrawlsAmong(ReadableRows(before.organisations), before, after,
                       call)

\* C24: a call of get_charity_networks appends one CharityRunConfig for
\* each seed it crawls, in the seeds' order; the run's success is True
\* exactly when get_charity_network returned a graph; when it returned
\* None, success is False, connected_components_count is None, nothing is
\* raised for it and the seeds after it are crawled, up to a row that
\* cannot be read.
C24_OneRunPerCharitySeed ==
    \A k \in 1..Len(sequence_calls) :
        sequence_calls[k].op = "get_charity_networks" =>
            CharityCrawlsOf(sequence_calls[k].before, SequenceAfter(k),
                            sequence_calls[k])

\* a call crawled a charity of which there is no record and then one that
\* has a graph
C24_Witness ==
    \E k \in 1..Len(sequence_calls) :
        /\ sequence_calls[k].op = "get_charity_networks"
        /\ sequence_calls[k].exc = NoExc
        /\ Len(sequence_calls[k].crawls) = 2
        /\ sequence_calls[k].crawls[1].outcome = "None"
        /\ sequence_calls[k].crawls[2].outcome = "Graph"
        /\ SequenceAfter(k)._charity_runs[1].success = Some(FALSE)
        /\ SequenceAfter(k)._charity_runs[2].success = Some(TRUE)


\* the summary run of the seeds: its root_id is the tuple of the seeds,
\* its composed_runs are the runs of the seeds in their order, and its
\* times are the start of the first of them and the end of the last
SummaryOfSeeds(summary, seeds) ==
    /\ summary.root_id = seeds
    /\ Len(summary.composed_runs) = Len(seeds)
    /\ \A i \in 1..Len(seeds) : summary.composed_runs[i].root_id = seeds[i]
    /\ summary.start_time = summary.composed_runs[1].start_time
    /\ summary.end_time = summary.composed_runs[Len(seeds)].end_time

\* the call completed and appended the summary run of the seeds, and no
\* other run, to the runs of the sequence
ComposedSummaryOf(before, after, call) ==
    /\ call.exc = NoExc
    /\ Len(after._company_runs) = Len(before._company_runs) + 1
    /\ SubSeq(after._company_runs, 1, Len(before._company_runs)) =
          before._company_runs
    /\ SummaryOfSeeds(after._company_runs[Len(after._company_runs)],
                      ActiveCompanyIds(before.organisations))

\* C25: a call of get_composed_company_network on a sequence of one
\* active company seed or more completes and appends one summary run,
\* whose composed_runs are the runs of the seeds in their order, whose
\* root_id is the tuple of the seeds, whose start_time is that of the
\* first of them and whose end_time is that of the last.  The code reads
\* first_run at _runs[prior_runs + 1], the second run of the call: with
\* one seed it raises IndexError.
C25_ComposedSummary ==
    \A k \in 1..Len(sequence_calls) :
        (/\ sequence_calls[k].op = "get_composed_company_network"
         /\ ActiveCompanyIds(sequence_calls[k].before.organisations) # <<>>)
            => ComposedSummaryOf(sequence_calls[k].before, SequenceAfter(k),
                                 sequence_calls[k])


\* the service has a record of the charity
HasRecord(service, charity_number) ==
    GetCharityByRegisteredCharityNumber(service, charity_number).st = "ok"

\* the trustees of the subsidiaries of a charity
TrusteesOf(service, charity_number) ==
    UNION {{GetCharityTrustees(service, charity_number, subsidiary)[j] :
               j \in 1..Len(GetCharityTrustees(service, charity_number,
                                               subsidiary))} :
           subsidiary \in 0..GetCharityByRegisteredCharityNumber(
                                 service, charity_number).SubsidiaryNumber}

\* the nodes of the root charity, of its trustees and of their related
\* charities of which the service has a record
RootAndRelated(service, charity_number) ==
    {charity_number}
    \cup {trustee.TrusteeNumber : trustee \in TrusteesOf(service, charity_number)}
    \cup {n \in UNION {{trustee.RelatedCharities[j].CharityNumber :
                           j \in 1..Len(trustee.RelatedCharities)} :
                       trustee \in TrusteesOf(service, charity_number)} :
             HasRecord(service, n)}

\* the crawls of the call of roots with a record returned a graph, and the
\* graphs set on the organisations hold the root, its trustees and the
\* related charities with a record
RelatedFailuresSkipped(service, before, after, call) ==
    /\ \A i \in 1..Len(call.crawls) :
          HasRecord(service, call.crawls[i].charity_id) =>
              call.crawls[i].outcome = "Graph"
    /\ \A j \in 1..Len(after.organisations) :
          (/\ before.organisations[j].charity_network = None
           /\ after.organisations[j].charity_network # None)
              => RootAndRelated(service,
                                charity_id(after.organisations[j]).v[1])
                    \subseteq NodeIds(after.organisations[j].charity_network[1])

\* C30: get_charity_network with branches of 1 or more, for a charity with
\* a record, returns the graph of the charity, its trustees and their
\* related charities that have a record, and raises nothing, when the
\* fetch of a related charity ends in a Fault or in an empty record.  The
\* code asserts is_bipartite of the None the failed fetch returns, or
\* subscripts the empty record: the call raises.
C30_RelatedFailureSkipped ==
    \A k \in 1..Len(sequence_calls) :
        (/\ sequence_calls[k].op = "get_charity_networks"
         /\ sequence_calls[k].before.charity_client_params.branches >= 1)
            => RelatedFailuresSkipped(Commission, sequence_calls[k].before,
                                      SequenceAfter(k), sequence_calls[k])


\* the nodes of a Graph that were written: add_node gave them attributes
Written(g) == {n \in NodeIds(g) : g.nodes[n].has}

\* every node written in g is a node of h with the attributes it has in g
FirstWriteWins(g, h) ==
    \A n \in Written(g) : n \in NodeIds(h) /\ h.nodes[n] = g.nodes[n]

\* C26: a call leaves every node written in a Graph object of the client
\* with the name, kind, bipartite, is_person, category and data it had
\* before the call, for persons met again through another company and for
\* companies crawled again as the root of a later seed.  _get_network
\* writes the root's node whether or not it is there: its data are those
\* of the new crawl, which are fewer when that crawl is cut short.
C26_FirstWriteWins ==
    [][\A k \in DOMAIN heap : FirstWriteWins(heap[k], heap'[k])]_vars


\* the ids of the entries of a listing of the registry
ListedIds(endpoint, company_id) ==
    IF Reply(endpoint, company_id).st = "ok"
    THEN {Reply(endpoint, company_id).items[j].id :
             j \in 1..Len(Reply(endpoint, company_id).items)}
    ELSE {}

\* a root and the officers and controllers the registry lists for it
RootAndDirect(root_id) ==
    {stringify_company_id(root_id)}
    \cup ListedIds("officers", stringify_company_id(root_id))
    \cup ListedIds("controllers", stringify_company_id(root_id))

\* C27: every get_network call of a client made with branches = B >= 0
\* enters _get_network with a branch_iterator from 0 to B only and raises
\* neither ExceededMaxBranchesException nor NegativeIntBranchException; with
\* B = 0 the graph holds no node but the roots asked for and the officers
\* and controllers listed for them.
C27_HopsWithinBranches ==
    \A i \in 1..Len(calls) :
        /\ calls[i].hops \subseteq 0..branches
        /\ calls[i].exc \notin {"ExceededMaxBranchesException",
                                "NegativeIntBranchException"}
        /\ branches = 0 =>
              NodeIds(calls[i].graph) \subseteq
                  UNION {RootAndDirect(calls[j].arg) : j \in 1..i}

\* a crawl went to the last hop of two and ended without an exception
C27_Witness ==
    /\ branches = 2
    /\ \E i \in 1..Len(calls) :
          calls[i].exc = NoExc /\ calls[i].hops = {0, 1, 2}


\* the officers listing of the company holds an entry of the person that
\* has not resigned, and the crawl of the company reads it
ListingRecords(g, company_id, person_id) ==
    /\ include_officers
    /\ company_id \in Written(g)
    /\ g.nodes[company_id].kind = "company"
    /\ Reply("company", company_id).officers_link
    /\ Reply("officers", company_id).st = "ok"
    /\ \E j \in 1..Len(Reply("officers", company_id).items) :
          /\ Reply("officers", company_id).items[j].id = person_id
          /\ Reply("officers", company_id).items[j].resigned_on = None

\* C28: in the graph of a call, an edge without data joins a person and a
\* company only if the company's officers listing did not record the
\* person; the edge of a person the listing records keeps the entry as its
\* data.  With enforce_missing_ties the code adds the edge with data=None
\* after every recursion, over the edge the listing gave.
C28_EnforcedOnlyWhenMissing ==
    \A i \in 1..Len(calls) :
        \A e \in EdgeIds(calls[i].graph) :
            calls[i].graph.edges[e] = None =>
                \A company_id, person_id \in e :
                    ~ ListingRecords(calls[i].graph, company_id, person_id)


\* the appointments of the officer name the company: _add_officer caches
\* an appointment under the company's number
AppointedTo(officer_id, company_id) ==
    /\ Reply("appointments", officer_id).st = "ok"
    /\ \E j \in 1..Len(Reply("appointments", officer_id).items) :
          Reply("appointments", officer_id).items[j].company_number =
              Some(company_id)

\* the officers the listing of the company yields without a name, a
\* missing key or a null, and without an appointment to the company
NamelessOfficers(company_id) ==
    IF Reply("officers", company_id).st # "ok" THEN {}
    ELSE {Reply("officers", company_id).items[j].id :
             j \in {k \in 1..Len(Reply("officers", company_id).items) :
                      /\ Reply("officers", company_id).items[k].name.st
                            \in {"missing", "null"}
                      /\ Reply("officers", company_id).items[k].resigned_on = None
                      /\ ~ AppointedTo(Reply("officers", company_id).items[k].id,
                                       company_id)}}

\* the call crawled the officers of its root
CrawledRootOfficers(call) ==
    /\ include_officers
    /\ 0 \in call.hops
    /\ Reply("company", stringify_company_id(call.arg)).st = "ok"
    /\ Reply("company", stringify_company_id(call.arg)).officers_link
    /\ stringify_company_id(call.arg) \in Written(call.graph)

\* C29: a get_network call that crawls the officers of its root adds every
\* officer the listing names with no name key or a null name, and who has
\* no cached appointment to the root, as a node with an empty name, and
\* raises neither KeyError nor TypeError.  The code reads board_data["name"]
\* in the warning of the cache miss and hands a null name to is_person.
C29_NamelessOfficerAdded ==
    \A i \in 1..Len(calls) :
        CrawledRootOfficers(calls[i]) =>
            \A officer_id \in NamelessOfficers(stringify_company_id(calls[i].arg)) :
                /\ calls[i].exc \notin {"KeyError", "TypeError"}
                /\ officer_id \in Written(calls[i].graph)
                /\ calls[i].graph.nodes[officer_id].name = <<>>


\* the officers the function's loop is handed for the root of the call
\* made: [v, exc]
RootOfficersYielded ==
    IF /\ crawled.kw.include_officers
       /\ Reply("company", stringify_company_id(crawled.company_id)).st = "ok"
       /\ Reply("company", stringify_company_id(crawled.company_id)).officers_link
       /\ Reply("officers", crawled.company_id).st = "ok"
    THEN OfficersFrom(Reply("officers", crawled.company_id).items,
                      crawled.kw.exclude_resigned_board_members, clock, 1,
                      NoYields)
    ELSE NoYields

\* the companies, other than the root, that the appointments of the root's
\* officers name
RelatedOfRoot ==
    UNION {{Reply("appointments", RootOfficersYielded.v[j].id).items[k]
                .company_number[1] :
               k \in 1..Len(Reply("appointments",
                                  RootOfficersYielded.v[j].id).items)} :
           j \in {n \in 1..Len(RootOfficersYielded.v) :
                    Reply("appointments",
                          RootOfficersYielded.v[n].id).st = "ok"}}
    \ {crawled.company_id}

\* the record of the company is served, and the flags do not exclude it
FetchableByFunction(company_id) ==
    get_company_data([exc |-> NoExc, requests |-> <<>>], company_id,
                     crawled.kw.exclude_non_active_companies).v.st = "ok"

\* C31: when get_company_network is called with branches >= 1 on a root
\* that is fetched, and the record of a company related to the root through
\* an officer cannot be fetched, the call raises nothing and returns a graph
\* with the root, the officers of the root and every related company that
\* can be fetched.  The warning of the skipped company reads
\* g.nodes['officer_id'] and raises KeyError.
C31_UnfetchableRelatedSkipped ==
    ( /\ crawled.done
      /\ crawled.branches >= 1
      /\ FetchableByFunction(crawled.company_id)
      /\ RootOfficersYielded.exc = NoExc
      /\ \E related \in RelatedOfRoot :
            Reply("company", related).st # "ok" )
    => /\ crawled.exc = NoExc
       /\ ~ crawled.none
       /\ crawled.company_id \in NodeIds(crawled.g)
       /\ \A j \in 1..Len(RootOfficersYielded.v) :
             RootOfficersYielded.v[j].id \in NodeIds(crawled.g)
       /\ \A related \in RelatedOfRoot :
             FetchableByFunction(related) => related \in NodeIds(crawled.g)

\* the i-th call replaced the client's graph by an empty one: it ran the
\* crawl, on a client that does not compose or that resets
ReplacedGraph(i) ==
    /\ 0 \in calls[i].hops
    /\ ~ compose_queried_networks \/ calls[i].reset_cache

\* the requests sent from the i-th call to the j-th
SentFromTo(i, j) ==
    SubSeq(requests, (IF i = 1 THEN 0 ELSE calls[i - 1].sent) + 1,
           calls[j].sent)

\* no appointments listing is requested twice among the requests
AppointmentsOnce(sent_) ==
    \A m, n \in 1..Len(sent_) :
        (sent_[m][1] = "appointments" /\ sent_[m] = sent_[n]) => m = n

\* C32: among the requests of a run of consecutive calls none of which,
\* after the first, replaces the graph, no officer's appointments listing
\* is requested twice.  A call that ends in the exception of C29 has
\* requested the listing of an officer it did not add, and the next call
\* asks for it again.
C32_AppointmentsRequestedOnce ==
    \A i \in 1..Len(calls) : \A j \in i..Len(calls) :
        (\A k \in (i + 1)..j : ~ ReplacedGraph(k)) =>
            AppointmentsOnce(SentFromTo(i, j))


\* the last call made on the client ran a crawl and returned
LastCallCrawled ==
    /\ calls # <<>>
    /\ calls[Len(calls)].op = "get_network"
    /\ 0 \in calls[Len(calls)].hops
    /\ calls[Len(calls)].exc = NoExc

\* the connected components of g: the sets of nodes reachable from a node
ComponentsOf(g) == {Reach(g, {n}) : n \in NodeIds(g)}

\* the dict files each node of g under the kind of the node, and under no
\* other
FilesByKind(kinds_ids_dict, g) ==
    /\ DOMAIN kinds_ids_dict =
           {COMPANY_NETWORK_KINDS[k] : k \in 1..Len(COMPANY_NETWORK_KINDS)}
    /\ UNION {kinds_ids_dict[k] : k \in DOMAIN kinds_ids_dict} = NodeIds(g)
    /\ \A k \in DOMAIN kinds_ids_dict : \A n \in kinds_ids_dict[k] :
          g.nodes[n].has /\ g.nodes[n].kind = k
    /\ \A k, l \in DOMAIN kinds_ids_dict :
          k # l => kinds_ids_dict[k] \cap kinds_ids_dict[l] = {}

\* C33: when get_network has returned after a crawl, the kinds_ids_dict of
\* the last run files every node of the client's graph under the kind of
\* the node, its sets are pairwise disjoint and cover the nodes, and the
\* connected_components_count of the run is the number of connected
\* components of the graph.
C33_RunRecordMatchesGraph ==
    LastCallCrawled =>
        /\ _runs # <<>>
        /\ _runs[Len(_runs)].kinds_ids_dict # None
        /\ FilesByKind(_runs[Len(_runs)].kinds_ids_dict[1], TheClientGraph)
        /\ _runs[Len(_runs)].connected_components_count =
               Some(Cardinality(ComponentsOf(TheClientGraph)))

\* a second crawl returned, the graph has nodes of the three kinds and
\* several components
C33_Witness ==
    /\ LastCallCrawled
    /\ Len(calls) = 2
    /\ \A k \in 1..Len(COMPANY_NETWORK_KINDS) :
          \E n \in NodeIds(TheClientGraph) :
              TheClientGraph.nodes[n].kind = COMPANY_NETWORK_KINDS[k]
    /\ Cardinality(ComponentsOf(TheClientGraph)) > 1

\* the HTTP requests sent for the params of call f
RequestsOf(f) == {k \in 1..Len(sent) : sent[k].params = f.params}

\* C34: a companies_house_query call with pagination disabled sends at most
\* max_trials HTTP requests.  The requests.get before the while loop is one
\* more than the max_trials requests of the loop.
C34_AtMostMaxTrialsRequests ==
    \A n \in 1..Len(AllQueries) :
        ~ AllQueries[n].pagination =>
            Cardinality(RequestsOf(AllQueries[n])) <= AllQueries[n].max_trials

\* the companies one hop from those of cs: named by an appointment of an
\* officer that the listing of one of cs holds
OneHopFrom(cs) ==
    UNION {UNION {{Reply("appointments",
                         Reply("officers", c).items[j].id).items[k]
                       .company_number[1] :
                      k \in 1..Len(Reply("appointments",
                              Reply("officers", c).items[j].id).items)} :
                  j \in {n \in 1..Len(Reply("officers", c).items) :
                           Reply("appointments",
                                 Reply("officers", c).items[n].id).st = "ok"}} :
           c \in {d \in cs : Reply("officers", d).st = "ok"}}

\* the companies at most n hops from root
RECURSIVE WithinHops(_, _)
WithinHops(root, n) ==
    IF n = 0 THEN {root}
    ELSE WithinHops(root, n - 1) \cup OneHopFrom(WithinHops(root, n - 1))

\* every request of the first call was served
AllFetched ==
    \A k \in 1..calls[1].sent : Reply(requests[k][1], requests[k][2]).st = "ok"

\* C35: the graph that the first get_network of a client returns, when the
\* client includes officers and excludes nothing and every request was
\* served, contains every company within branches hops of the root.  The
\* crawl passes over a company that is a node already, so one that it met
\* first at the last hop is not expanded when it is met again nearer the
\* root.
C35_AllWithinBranches ==
    ( /\ Len(calls) >= 1
      /\ calls[1].exc = NoExc
      /\ include_officers
      /\ ~ exclude_non_active_companies
      /\ ~ exclude_resigned_board_members
      /\ ~ exclude_ceased_controllers
      /\ AllFetched )
    => WithinHops(stringify_company_id(calls[1].arg), branches)
           \subseteq NodeIds(calls[1].graph)

\* C36: when a get_network call returns and the record of its root is
\* served and not excluded, the normalised root id is a node of the graph
\* returned.  A client with reset_cache=False and
\* compose_queried_networks=False that holds a graph returns it as it is.
C36_RootInReturnedGraph ==
    \A i \in 1..Len(calls) :
        ( /\ calls[i].op = "get_network"
          /\ calls[i].exc = NoExc
          /\ Fetchable(stringify_company_id(calls[i].arg)) )
        => stringify_company_id(calls[i].arg) \in NodeIds(calls[i].graph)

\* the run has both its times
Completed(run) == run.start_time # None /\ run.end_time # None

\* C37: a run record with both times has start_time <= end_time, and both
\* are later than the times of the runs before it, so were taken in its own
\* call.  _get_network returns for an absent root before it sets
\* self._query_end, and get_network then copies the end time of an earlier
\* crawl.
C37_RunTimesWithinCall ==
    \A k \in 1..Len(_runs) :
        Completed(_runs[k]) =>
            /\ _runs[k].start_time[1] <= _runs[k].end_time[1]
            /\ \A j \in 1..(k - 1) :
                  Completed(_runs[j]) =>
                      /\ _runs[j].start_time[1] < _runs[k].start_time[1]
                      /\ _runs[j].end_time[1] < _runs[k].end_time[1]
\* the errors that end a crawl for good: the 403 of the registry and the
\* retries that ran out
FatalErrors == {"CompaniesHousePermissionError", "Exception"}

\* every node of g has a kind and a bipartite value of 0 or 1
NodesTyped(g) ==
    \A n \in NodeIds(g) :
        /\ \E k \in 1..Len(COMPANY_NETWORK_KINDS) :
              g.nodes[n].kind = COMPANY_NETWORK_KINDS[k]
        /\ g.nodes[n].bipartite \in {0, 1}

\* C38: when a get_network call has ended with a fatal error, no run of the
\* ledger is left with a null time or a null kinds_ids_dict, every cached
\* officer is a node of the client's graph and every node has kind and
\* bipartite.  get_network appends the run before the crawl and fills it
\* after the crawl, so the run of a crawl that raised stays as appended.
C38_FatalLeavesStateSound ==
    ( /\ calls # <<>>
      /\ calls[Len(calls)].op = "get_network"
      /\ calls[Len(calls)].exc \in FatalErrors )
    => /\ \A k \in 1..Len(_runs) :
             Completed(_runs[k]) /\ _runs[k].kinds_ids_dict # None
       /\ DOMAIN _officer_appointments_cache \subseteq NodeIds(TheClientGraph)
       /\ NodesTyped(TheClientGraph)
\* the Graph object yielded for seed i has the nodes and edges it had when
\* it was yielded
YieldedUnchanged(i) ==
    /\ NodeIds(heap[generator.yielded[i].ref]) =
           NodeIds(generator.yielded[i].graph)
    /\ EdgeIds(heap[generator.yielded[i].ref]) =
           EdgeIds(generator.yielded[i].graph)

\* C39: when networks_generator or async_networks_generator has run to its
\* end, every Graph object it yielded has the nodes and the edges it had
\* when it was yielded.  A client that keeps its graph crawls every seed on
\* the one Graph object, so the object yielded for a seed grows with the
\* crawls of the seeds after it.
C39_YieldedGraphsKept ==
    Exhausted(generator) =>
        \A i \in 1..Len(generator.yielded) : YieldedUnchanged(i)
\* the number of appointments the registry lists for a person
AppointmentsListed(person_id) ==
    IF Reply("appointments", person_id).st = "ok"
    THEN Len(Reply("appointments", person_id).items)
    ELSE 0

\* the appointments listed for the persons items[1..n] of a listing
RECURSIVE AppointmentsOfListing(_, _)
AppointmentsOfListing(items, n) ==
    IF n = 0 THEN 0
    ELSE AppointmentsOfListing(items, n - 1) + AppointmentsListed(items[n].id)

\* the appointments listed for the officers and the controllers of a company
AppointmentsAround(company_id) ==
    (IF Reply("officers", company_id).st = "ok"
     THEN AppointmentsOfListing(Reply("officers", company_id).items,
                                Len(Reply("officers", company_id).items))
     ELSE 0)
    + (IF Reply("controllers", company_id).st = "ok"
       THEN AppointmentsOfListing(Reply("controllers", company_id).items,
                                  Len(Reply("controllers", company_id).items))
       ELSE 0)

\* the appointments listed around every company of cs
RECURSIVE AppointmentsAroundAll(_)
AppointmentsAroundAll(cs) ==
    IF cs = {} THEN 0
    ELSE AppointmentsAround(CHOOSE c \in cs : TRUE)
         + AppointmentsAroundAll(cs \ {CHOOSE c \in cs : TRUE})

\* the appointments the registry lists around the companies that have a
\* record
AppointmentsOfRecords ==
    AppointmentsAroundAll(
        {c \in DOMAIN registry.company : registry.company[c].st = "ok"})

\* the registry lists an appointment whose company_number is the empty
\* string: _get_network takes the root in its place, and crawls the root
\* again one hop deeper
ListsBlankAppointment ==
    \E person_id \in DOMAIN registry.appointments :
        /\ registry.appointments[person_id].st = "ok"
        /\ \E i \in 1..Len(registry.appointments[person_id].items) :
               registry.appointments[person_id].items[i].company_number =
                   Some(<<>>)

\* 1 + fan + fan^2 + ... + fan^hops: the frames of a crawl of which every
\* frame makes fan calls at most, hops deep
RECURSIVE FramesWithin(_, _)
FramesWithin(fan, hops) ==
    IF hops = 0 THEN 1 ELSE 1 + fan * FramesWithin(fan, hops - 1)

\* the most _get_network calls one get_network makes on the registry: the
\* root's, and one for every appointment listed around a company that has a
\* record, since a company with a record is a node once it is entered and
\* is not entered again.  The root is entered again for an appointment
\* without a company number: then every frame makes a call for every
\* appointment at most, branches deep
ExpansionBound ==
    IF ListsBlankAppointment
    THEN FramesWithin(AppointmentsOfRecords, branches)
    ELSE 1 + AppointmentsOfRecords

\* the call has ended: get_network returned or raised
CrawlEnded == crawling.pc \in {"returned", "raised"}

\* C40: a get_network call on a new client, whatever the registry, branches
\* and the flags, ends: it returns after filling its run or raises.  Until
\* then its _get_network frames nest no deeper than branches + 1, and it
\* enters _get_network no more often than once for the root and once for
\* every appointment that the registry lists around a company with a
\* record; where an appointment has no company number, no more often than
\* the frames of a crawl branches deep that calls once for every
\* appointment.
C40_CrawlTerminates ==
    /\ [](Len(crawling.stack) <= branches + 1)
    /\ [](crawling.expansions <= ExpansionBound)
    /\ (crawling.pc = "running") ~> CrawlEnded

\* a crawl of two hops from a root whose officers sit on other boards
\* returned after entering _get_network at every depth, four times or more
C40_Witness ==
    /\ crawling.pc = "returned"
    /\ branches = 2
    /\ calls[1].hops = {0, 1, 2}
    /\ crawling.expansions >= 4
=============================================================================
